---- MODULE Spec2Model ----
(***************************************************************************)
(* Batch job queue of OllamaCoder (src/ollama_coder/batch/job_queue.py):   *)
(* a SQLite-backed job store, a pool of asyncio worker coroutines that     *)
(* claim queued jobs and run the processor registered for the job's type,  *)
(* and the cancel/start/stop operations of the queue.                      *)
(*                                                                         *)
(* Atomicity follows asyncio: a coroutine runs until it reaches an await   *)
(* that really suspends.  The store methods hold no such await (sqlite3    *)
(* calls are synchronous), so each store method, and every stretch of a    *)
(* worker between two suspensions, is one step.  The suspensions of a      *)
(* worker are asyncio.sleep and the awaits inside the processor call.      *)
(***************************************************************************)
EXTENDS Integers, Sequences, FiniteSets, TLC

\* ---------------------------------------------------------------- bounds
MaxJobs == 2        \* add_job calls explored
MaxPools == 1       \* worker pools alive at once (a start() during a stop() adds one)

\* ------------------------------------------------------ program constants
max_workers == 2    \* JobQueue(max_workers=2) of the test fixture

\* ------------------------------------------------------------ value sets
NULL == "NULL"      \* Python None / SQL NULL in a text column
NoTime == 0         \* Python None / SQL NULL in a timestamp column
Stamp == 1          \* a time.time() reading kept in started_at or completed_at: the
                    \* code only ever tests these two columns for None

\* The job types add_job is called with, and those register_processor is called with
\* (the tests register "simple" and never "unregistered_type").
Types == {"simple", "unregistered_type"}
Registrable == {"simple"}

\* Payloads a processor can return (Python values).
PyDict == "py{processed:10}"
PyEmpty == "py{}"
Payloads == {PyDict, PyEmpty}

\* job.metadata after a progress write: {"progress": tracker.to_dict()}.
PySnapshot == "py{progress:{...}}"

\* What a batch processor returns: {"error": "No tasks provided"} and its like for an
\* empty item list, {"summary": ..., "results": ..., "elapsed_seconds": ...} for a
\* batch that ran.  Both are non-empty dicts.
PyNoItems == "py{error:No items provided}"
PySummary == "py{summary:{...},results:[...]}"

\* Exception messages str(e) of a raising processor.
Errors == {"Intentional failure"}

\* tracker.percentage values a processor persists between chunks.
ProgressVals == {50}

Tasks == 1..(max_workers * MaxPools)
JobIds == 1..MaxJobs

Terminal == {"completed", "failed", "cancelled"}
JobStatus == {"queued", "running"} \cup Terminal

VARIABLES
    jobs,          \* the jobs table: row id -> row (ids are 1..Len(jobs))
    processors,    \* self.processors: the job types with a registered processor
    running,       \* self._running
    worker_tasks,  \* self._worker_tasks
    pc,            \* where each worker coroutine is
    job,           \* each worker's local Job object (the claimed row)
    stopWait,      \* the tasks a stop() call in flight is gathering
    hist,          \* per job: what happened to it (history, read by no action)
    frame,         \* each worker's batch processor call: its tracker and chunk loop
    ret,           \* the last call of a store method made by a client, with its result
    tie            \* how this SQLite build orders rows of equal created_at

vars == <<jobs, processors, running, worker_tasks, pc, job, stopWait, hist, frame, ret, tie>>

\* ------------------------------------------------------------ the Job row
Truthy(v) == v \notin {NULL, PyEmpty}

\* json.dumps / json.loads on the modelled payloads: Python value <-> JSON text.
Dumps(v) == CASE v = PyDict -> "{\"processed\": 10}"
              [] v = PyEmpty -> "{}"
              [] v = PySnapshot -> "{\"progress\": {...}}"
              [] v = PyNoItems -> "{\"error\": \"No items provided\"}"
              [] v = PySummary -> "{\"summary\": {...}, \"results\": [...]}"
              [] OTHER -> "null"

Loads(s) == CASE s = "{\"processed\": 10}" -> PyDict
              [] s = "{}" -> PyEmpty
              [] s = "{\"progress\": {...}}" -> PySnapshot
              [] s = "{\"error\": \"No items provided\"}" -> PyNoItems
              [] s = "{\"summary\": {...}, \"results\": [...]}" -> PySummary
              [] OTHER -> NULL

\* Job(id, type, data, metadata=metadata or {}) with the dataclass defaults.
JobOf(t, d, md, created) ==
    [type |-> t, data |-> d, status |-> "queued", progress |-> 0, result |-> NULL,
     error |-> NULL, created_at |-> created, started_at |-> NoTime,
     completed_at |-> NoTime, metadata |-> IF md = NULL THEN PyEmpty ELSE md]

\* add_job(job_type, {}) of the queue's tests: empty data, no metadata.
NewJob(t, created) == JobOf(t, PyEmpty, NULL, created)

\* Faulty variant of InsertRow: the INSERT leaves the metadata column out.
InsertRowNoMetadata(j) ==
    [j EXCEPT !.data = Dumps(j.data), !.metadata = NULL,
              !.result = NULL, !.error = NULL, !.started_at = NoTime,
              !.completed_at = NoTime]

\* The row add_job inserts: data and metadata as JSON text, the columns the INSERT
\* does not name NULL.
InsertRow(j) ==
    [j EXCEPT !.data = Dumps(j.data), !.metadata = Dumps(j.metadata),
              !.result = NULL, !.error = NULL, !.started_at = NoTime,
              !.completed_at = NoTime]

\* The Job object built from a row: data is json.loads(row[2]), result is
\* json.loads(row[5]) if row[5] else None, metadata json.loads(row[10]) if row[10] else {}.
FromRow(row) ==
    [row EXCEPT !.data = Loads(row.data),
                !.result = IF row.result # NULL THEN Loads(row.result) ELSE NULL,
                !.metadata = IF row.metadata # NULL THEN Loads(row.metadata) ELSE PyEmpty]

Stored == DOMAIN jobs

\* No batch processor call: the worker is not in one, or the processor is another one.
NoFrame == [total |-> 0, chunk_size |-> 0, i |-> 0, processed |-> 0]

\* claims: claims of the job; invoked: processor calls for it; outcome: what the
\* worker's final write stored ("noproc", a payload or a message); lost: the final
\* write raised; cancelledQueued: cancel_job returned True for it while it was queued;
\* batch: the items, tracker and results its processor call ended with, when the
\* call was followed item by item.
NoHist == [claims |-> 0, invoked |-> 0, outcome |-> "none", lost |-> FALSE,
           cancelledQueued |-> FALSE, batch |-> NoFrame]

NoJob == [id |-> 0, rec |-> NewJob("", NoTime)]

\* No client call recorded.
NoRet == [op |-> "none"]

Init ==
    /\ jobs = <<>>
    /\ processors = {}
    /\ running = FALSE
    /\ worker_tasks = {}
    /\ pc = [w \in Tasks |-> "unborn"]
    /\ job = [w \in Tasks |-> NoJob]
    /\ stopWait = {}
    /\ hist = [j \in JobIds |-> NoHist]
    /\ frame = [w \in Tasks |-> NoFrame]
    /\ ret = NoRet
    /\ tie = "desc"

\* ----------------------------------------------------------- store methods

\* Faulty variant of UpdateJob: a write that spares a row whose status is already terminal.
UpdateJobKeepsTerminal(js, id, j) ==
    IF id \in DOMAIN js /\ js[id].status \notin Terminal
    THEN [js EXCEPT ![id] =
            [@ EXCEPT !.status = j.status,
                      !.progress = j.progress,
                      !.result = IF Truthy(j.result) THEN Dumps(j.result) ELSE NULL,
                      !.error = j.error,
                      !.started_at = j.started_at,
                      !.completed_at = j.completed_at,
                      !.metadata = Dumps(j.metadata)]]
    ELSE js

\* update_job: UPDATE ... SET status, progress, result, error, started_at,
\* completed_at, metadata WHERE id = ?  (no row with that id: nothing changes).
UpdateJob(js, id, j) ==
    IF id \in DOMAIN js
    THEN [js EXCEPT ![id] =
            [@ EXCEPT !.status = j.status,
                      !.progress = j.progress,
                      !.result = IF Truthy(j.result) THEN Dumps(j.result) ELSE NULL,
                      !.error = j.error,
                      !.started_at = j.started_at,
                      !.completed_at = j.completed_at,
                      !.metadata = Dumps(j.metadata)]]
    ELSE js

\* get_job of a stored id: the Job of the row (an id with no row gives None, which
\* the callers test with Stored).
GetJob(js, id) == FromRow(js[id])

\* Faulty variant of RegisterProcessor: the registration also puts the jobs of the
\* type that failed for want of a processor back in the queue.
RegisterProcessorRetries(t) ==
    /\ processors' = processors \cup {t}
    /\ jobs' = [id \in DOMAIN jobs |->
                    IF jobs[id].type = t /\ jobs[id].status = "failed"
                        /\ hist[id].outcome = "noproc"
                    THEN [jobs[id] EXCEPT !.status = "queued"]
                    ELSE jobs[id]]
    /\ UNCHANGED <<running, worker_tasks, pc, job, stopWait, hist, frame, ret, tie>>

\* register_processor(job_type, processor)
RegisterProcessor(t) ==
    /\ processors' = processors \cup {t}
    /\ UNCHANGED <<jobs, running, worker_tasks, pc, job, stopWait, hist, frame, ret, tie>>

\* time.time() at an add_job call: later than the reading of the previous add_job
\* (the calls of one event loop are sequential).
Clock(js) == IF js = <<>> THEN {1} ELSE {js[Len(js)].created_at + 1}

\* add_job: a fresh id, the row inserted with status queued and created_at = time.time().
AddJob(t) ==
    /\ Len(jobs) < MaxJobs
    /\ \E created \in Clock(jobs) : jobs' = Append(jobs, InsertRow(NewJob(t, created)))
    /\ UNCHANGED <<processors, running, worker_tasks, pc, job, stopWait, hist, frame, ret, tie>>

\* ------------------------------------------------------------- cancel_job

\* Faulty variant of CancelAllowed: only an already cancelled job is refused.
CancelAllowedUnlessCancelled(status) == status # "cancelled"

\* cancel_job's test: job.status in [QUEUED, RUNNING]
CancelAllowed(status) == status \in {"queued", "running"}

\* The Job cancel_job writes back.
Cancelled(j, t) == [j EXCEPT !.status = "cancelled", !.completed_at = t]

Bump(n) == IF n < 2 THEN n + 1 ELSE 2

\* cancel_job's return value: False when get_job finds no row or the status test
\* fails, True otherwise.
CancelReturns(js, id) == id \in DOMAIN js /\ CancelAllowed(GetJob(js, id).status)

\* cancel_job(job_id): get_job, the status test and update_job run without a
\* suspension, so the call is one step.
CancelJob(id) ==
    /\ UNCHANGED <<pc, job, running, worker_tasks, processors, stopWait, frame, ret, tie>>
    /\ jobs' = IF CancelReturns(jobs, id)
               THEN UpdateJob(jobs, id, Cancelled(GetJob(jobs, id), Stamp))
               ELSE jobs
    /\ hist' = IF CancelReturns(jobs, id)
               THEN [hist EXCEPT ![id].cancelledQueued = @ \/ jobs[id].status = "queued"]
               ELSE hist

\* ------------------------------------------------------------ _get_next_job

\* Faulty variant of ClaimCandidates: the sub-select also reads running rows.
ClaimCandidatesWithRunning(js) == {id \in DOMAIN js : js[id].status \in {"queued", "running"}}

\* Faulty variant of ClaimCandidates: the sub-select reads every row no worker has taken.
ClaimCandidatesUnstarted(js) == {id \in DOMAIN js : js[id].started_at = NoTime}

\* Faulty variant of ClaimCandidates: the sub-select skips the types no processor
\* is registered for.
ClaimCandidatesRegistered(js) ==
    {id \in DOMAIN js : js[id].status = "queued" /\ js[id].type \in processors}

\* The rows the claim's sub-select reads: WHERE status = 'queued'.
ClaimCandidates(js) == {id \in DOMAIN js : js[id].status = "queued"}

\* Faulty variant of NextJob: ORDER BY created_at DESC LIMIT 1.
NextJobNewest(js) ==
    {id \in ClaimCandidates(js) :
        \A k \in ClaimCandidates(js) : js[id].created_at >= js[k].created_at}

\* ORDER BY created_at ASC LIMIT 1: a row of minimal created_at (SQLite breaks
\* a tie as it likes).
NextJob(js) ==
    {id \in ClaimCandidates(js) :
        \A k \in ClaimCandidates(js) : js[id].created_at <= js[k].created_at}

\* Faulty variant of Claim: the UPDATE sets the status and no started_at.
ClaimNoStart(js, id, t) == [js EXCEPT ![id].status = "running"]

\* UPDATE jobs SET status = 'running', started_at = now WHERE id = (...)
Claim(js, id, t) == [js EXCEPT ![id].status = "running", ![id].started_at = t]

\* ------------------------------------------------------------------ _worker

\* f"No processor registered for job type: {job.type}"
NoProcessorError == "No processor registered for job type"

\* Faulty variant of NoProcessorFail: the branch forgets job.status = FAILED.
NoProcessorFailKeepsStatus(j, t) == [j EXCEPT !.error = NoProcessorError, !.completed_at = t]

\* The no-processor branch: the Job the worker writes back.
NoProcessorFail(j, t) ==
    [j EXCEPT !.status = "failed", !.error = NoProcessorError, !.completed_at = t]

\* The processor returned r: the Job the worker writes back.
OnReturn(j, r, t) ==
    [j EXCEPT !.status = "completed", !.result = r, !.progress = 100, !.completed_at = t]

\* Faulty variant of OnRaise: the except clause forgets job.error = str(e).
OnRaiseDropsError(j, m, t) == [j EXCEPT !.status = "failed", !.completed_at = t]

\* The processor raised with str(e) = m: the Job the worker writes back.
OnRaise(j, m, t) == [j EXCEPT !.status = "failed", !.error = m, !.completed_at = t]

\* Faulty variant of AfterException: the exception leaves the coroutine.
AfterExceptionEndsWorker == "done"

\* Where a worker goes when an exception reaches the loop's outer except clause:
\* it prints, sleeps one second and goes round the loop again.
AfterException == "idle"

\* `while self._running:` is false: the coroutine returns.
WorkerExit(w) ==
    /\ pc[w] = "idle"
    /\ ~running
    /\ pc' = [pc EXCEPT ![w] = IF w \in worker_tasks \cup stopWait THEN "done" ELSE "unborn"]
    /\ UNCHANGED <<jobs, processors, running, worker_tasks, job, stopWait, hist, frame, ret, tie>>

\* _get_next_job returns None: asyncio.sleep(0.5), then round the loop.
WorkerSleep(w) ==
    /\ pc[w] = "idle"
    /\ running
    /\ ClaimCandidates(jobs) = {}
    /\ UNCHANGED <<jobs, processors, running, worker_tasks, pc, job, stopWait, hist, frame, ret, tie>>

\* _get_next_job raises (sqlite3.OperationalError before the UPDATE commits): the
\* outer except clause catches it.
WorkerClaimFault(w) ==
    /\ pc[w] = "idle"
    /\ running
    /\ pc' = [pc EXCEPT ![w] = AfterException]
    /\ UNCHANGED <<jobs, processors, running, worker_tasks, job, stopWait, hist, frame, ret, tie>>

\* _get_next_job claims a row.  With a processor registered for its type the worker
\* calls it (and is suspended in it); with none it writes the job back as failed and
\* goes round the loop.  ok = FALSE: that update_job raises.
WorkerClaim(w, ok) ==
    /\ pc[w] = "idle"
    /\ running
    /\ \E id \in NextJob(jobs) :
        LET claimed == Claim(jobs, id, Stamp)
            j == FromRow(claimed[id])
        IN  IF j.type \in processors
            THEN /\ ok
                 /\ jobs' = claimed
                 /\ pc' = [pc EXCEPT ![w] = "proc"]
                 /\ job' = [job EXCEPT ![w] = [id |-> id, rec |-> j]]
                 /\ hist' = [hist EXCEPT ![id] =
                        [@ EXCEPT !.claims = Bump(@), !.invoked = Bump(@)]]
            ELSE /\ jobs' = IF ok THEN UpdateJob(claimed, id, NoProcessorFail(j, Stamp))
                                  ELSE claimed
                 /\ pc' = [pc EXCEPT ![w] = IF ok THEN "idle" ELSE AfterException]
                 /\ hist' = [hist EXCEPT ![id] =
                        [@ EXCEPT !.claims = Bump(@), !.outcome = IF ok THEN "noproc" ELSE @,
                                  !.lost = ~ok]]
                 /\ UNCHANGED job
    /\ UNCHANGED <<processors, running, worker_tasks, stopWait, frame, ret, tie>>

\* Inside the processor call: job.progress = tracker.percentage,
\* job.metadata["progress"] = tracker.to_dict(), await queue.update_job(job).
ProcProgress(w, p) ==
    /\ pc[w] = "proc"
    /\ p > job[w].rec.progress
    /\ LET j == [job[w].rec EXCEPT !.progress = p, !.metadata = PySnapshot]
       IN  /\ job' = [job EXCEPT ![w].rec = j]
           /\ jobs' = UpdateJob(jobs, job[w].id, j)
    /\ UNCHANGED <<processors, running, worker_tasks, pc, stopWait, hist, frame, ret, tie>>

\* The worker's final write of what the processor produced, then round the loop.
\* ok = FALSE: update_job raises and the outer except clause catches it.
FinalWrite(w, j, what, ok) ==
    /\ jobs' = IF ok THEN UpdateJob(jobs, job[w].id, j) ELSE jobs
    /\ pc' = [pc EXCEPT ![w] = IF ok THEN "idle" ELSE AfterException]
    /\ job' = [job EXCEPT ![w] = NoJob]
    /\ frame' = [frame EXCEPT ![w] = NoFrame]
    /\ hist' = [hist EXCEPT ![job[w].id] =
            [@ EXCEPT !.outcome = IF ok THEN what ELSE @, !.lost = ~ok,
                      !.batch = IF "items" \in DOMAIN frame[w] THEN frame[w] ELSE NoFrame]]
    /\ UNCHANGED <<processors, running, worker_tasks, stopWait, ret, tie>>

\* result = await processor(job, self) returns r.
ProcReturn(w, r, ok) ==
    /\ pc[w] = "proc"
    /\ FinalWrite(w, OnReturn(job[w].rec, r, Stamp), r, ok)

\* await processor(job, self) raises an Exception with str(e) = m.
ProcRaise(w, m, ok) ==
    /\ pc[w] = "proc"
    /\ FinalWrite(w, OnRaise(job[w].rec, m, Stamp), m, ok)

\* ------------------------------------------------------------- start, stop

\* A task slot is free ("unborn") before create_task and again once the ended task
\* has been dropped from _worker_tasks: an ended task is never read again.
Unborn == {w \in DOMAIN pc : pc[w] = "unborn"}

\* The next max_workers tasks asyncio.create_task makes.
NewTasks == {w \in Unborn : Cardinality({v \in Unborn : v < w}) < max_workers}

\* Faulty variant of Start: no `if self._running: return`.
StartAlways ==
    /\ Cardinality(Unborn) >= max_workers
    /\ running' = TRUE
    /\ worker_tasks' = worker_tasks \cup NewTasks
    /\ pc' = [w \in DOMAIN pc |-> IF w \in NewTasks THEN "idle" ELSE pc[w]]
    /\ UNCHANGED <<jobs, processors, job, stopWait, hist, frame, ret, tie>>

\* Faulty variant of Start: a start() also puts the rows left running back in the queue.
StartRecovers ==
    /\ ~running => Cardinality(Unborn) >= max_workers
    /\ running' = TRUE
    /\ worker_tasks' = IF running THEN worker_tasks ELSE worker_tasks \cup NewTasks
    /\ pc' = IF running THEN pc
             ELSE [w \in DOMAIN pc |-> IF w \in NewTasks THEN "idle" ELSE pc[w]]
    /\ jobs' = [id \in DOMAIN jobs |->
                    IF jobs[id].status = "running" THEN [jobs[id] EXCEPT !.status = "queued"]
                    ELSE jobs[id]]
    /\ UNCHANGED <<processors, job, stopWait, hist, frame, ret, tie>>

\* start(): nothing when already running; else _running = True and max_workers tasks
\* (explored while MaxPools leaves room for the new tasks).
Start ==
    /\ ~running => Cardinality(Unborn) >= max_workers
    /\ running' = TRUE
    /\ worker_tasks' = IF running THEN worker_tasks ELSE worker_tasks \cup NewTasks
    /\ pc' = IF running THEN pc
             ELSE [w \in DOMAIN pc |-> IF w \in NewTasks THEN "idle" ELSE pc[w]]
    /\ UNCHANGED <<jobs, processors, job, stopWait, hist, frame, ret, tie>>

\* stop(): _running = False; with tasks in _worker_tasks it waits in gather.
\* One stop() call is explored at a time.
Stop ==
    /\ stopWait = {}
    /\ running' = FALSE
    /\ stopWait' = worker_tasks
    /\ UNCHANGED <<jobs, processors, worker_tasks, pc, job, hist, frame, ret, tie>>

\* gather returns when every gathered task has ended: _worker_tasks.clear().
StopReturn ==
    /\ stopWait # {}
    /\ \A w \in stopWait : pc[w] = "done"
    /\ worker_tasks' = {}
    /\ stopWait' = {}
    /\ pc' = [w \in DOMAIN pc |-> IF pc[w] = "done" THEN "unborn" ELSE pc[w]]
    /\ UNCHANGED <<jobs, processors, running, job, hist, frame, ret, tie>>

\* ---------------------------------------------------------- specification

Next ==
    \/ \E t \in Registrable : RegisterProcessor(t)
    \/ \E t \in Types : AddJob(t)
    \/ \E id \in JobIds : CancelJob(id)
    \/ Start
    \/ Stop
    \/ StopReturn
    \/ \E w \in Tasks : WorkerExit(w)
    \/ \E w \in Tasks : WorkerSleep(w)
    \/ \E w \in Tasks : WorkerClaimFault(w)
    \/ \E w \in Tasks, ok \in BOOLEAN : WorkerClaim(w, ok)
    \/ \E w \in Tasks, p \in ProgressVals : ProcProgress(w, p)
    \/ \E w \in Tasks, r \in Payloads, ok \in BOOLEAN : ProcReturn(w, r, ok)
    \/ \E w \in Tasks, m \in Errors, ok \in BOOLEAN : ProcRaise(w, m, ok)

Spec == Init /\ [][Next]_vars

\* The queue while it stays running on a store that raises nothing: no stop(), no
\* failing store operation.  The event loop runs every ready worker, and every
\* processor call ends.
LiveNext ==
    \/ \E t \in Registrable : RegisterProcessor(t)
    \/ \E t \in Types : AddJob(t)
    \/ \E id \in JobIds : CancelJob(id)
    \/ Start
    \/ \E w \in Tasks : WorkerSleep(w)
    \/ \E w \in Tasks : WorkerClaim(w, TRUE)
    \/ \E w \in Tasks, p \in ProgressVals : ProcProgress(w, p)
    \/ \E w \in Tasks, r \in Payloads : ProcReturn(w, r, TRUE)
    \/ \E w \in Tasks, m \in Errors : ProcRaise(w, m, TRUE)

ProcEnds(w) ==
    \/ \E r \in Payloads : ProcReturn(w, r, TRUE)
    \/ \E m \in Errors : ProcRaise(w, m, TRUE)

LiveSpec ==
    /\ Init
    /\ [][LiveNext]_vars
    /\ \A w \in Tasks : WF_vars(WorkerClaim(w, TRUE)) /\ WF_vars(ProcEnds(w))

\* ------------------------------------------------- start and stop, racing

\* Task slots for one pool more than MaxPools: a start() finds room while the
\* tasks of an earlier pool are still alive or still held by a stop().
PoolTasks == 1..(max_workers * (MaxPools + 1))

\* The queue as the API builds it: every processor registered before start().
PoolInit ==
    /\ jobs = <<>>
    /\ processors = Registrable
    /\ running = FALSE
    /\ worker_tasks = {}
    /\ pc = [w \in PoolTasks |-> "unborn"]
    /\ job = [w \in PoolTasks |-> NoJob]
    /\ stopWait = {}
    /\ hist = [j \in JobIds |-> NoHist]
    /\ frame = [w \in PoolTasks |-> NoFrame]
    /\ ret = NoRet
    /\ tie = "desc"

\* start() and stop() called in any order, also a start() while a stop() waits in
\* gather, on a store that raises nothing.
PoolNext ==
    \/ \E t \in Registrable : AddJob(t)
    \/ Start
    \/ Stop
    \/ StopReturn
    \/ \E w \in PoolTasks : WorkerExit(w)
    \/ \E w \in PoolTasks : WorkerSleep(w)
    \/ \E w \in PoolTasks : WorkerClaim(w, TRUE)
    \/ \E w \in PoolTasks : ProcReturn(w, PyDict, TRUE)

PoolSpec == PoolInit /\ [][PoolNext]_vars

\* start() called any number of times and stop() never.
StartNext ==
    \/ \E t \in Registrable : AddJob(t)
    \/ Start
    \/ \E w \in PoolTasks : WorkerSleep(w)
    \/ \E w \in PoolTasks : WorkerClaim(w, TRUE)
    \/ \E w \in PoolTasks, p \in ProgressVals : ProcProgress(w, p)
    \/ \E w \in PoolTasks, r \in Payloads : ProcReturn(w, r, TRUE)
    \/ \E w \in PoolTasks, m \in Errors : ProcRaise(w, m, TRUE)

StartSpec == PoolInit /\ [][StartNext]_vars

\* ------------------------------------------------ BatchAgentProcessor.process

MaxItems == 3       \* len(job.data["tasks"]) explored

\* job.data["chunk_size"] explored: negative, zero, and up to the whole list in one chunk.
ChunkSizes == (0 - 1)..MaxItems

Min(a, b) == IF a < b THEN a ELSE b

\* Faulty variant of Percentage: the share of the items still to do.
PercentageOfRemaining(processed, total) ==
    IF total = 0 THEN 100 ELSE Min(100, ((total - processed) * 100) \div total)

\* ProgressTracker.percentage: min(100.0, processed / total * 100.0), 100.0 for an
\* empty tracker (to whole percents, rounded down).
Percentage(processed, total) ==
    IF total = 0 THEN 100 ELSE Min(100, (processed * 100) \div total)

InBatch(w) == pc[w] = "proc" /\ frame[w] # NoFrame

\* `for i in range(0, len(tasks), chunk_size)` has no further chunk (a negative
\* step gives an empty range).
LoopDone(f) == f.chunk_size < 0 \/ f.i >= f.total

\* The processor starts: tasks, chunk_size, ProgressTracker(total=len(tasks)),
\* await build_graph.  n and c are len(tasks) and chunk_size of the job's data.
BatchBegin(w, n, c) ==
    /\ pc[w] = "proc"
    /\ frame[w] = NoFrame
    /\ frame' = [frame EXCEPT ![w] = [total |-> n, chunk_size |-> c, i |-> 0, processed |-> 0]]
    /\ UNCHANGED <<jobs, processors, running, worker_tasks, pc, job, stopWait, hist, ret, tie>>

\* `if not tasks: return {"error": "No tasks provided"}`, and the worker's final write.
BatchEmpty(w, ok) ==
    /\ frame[w] = NoFrame
    /\ ProcReturn(w, PyDict, ok)

\* The tracker and loop index after one more chunk: every task of the chunk has
\* called tracker.increment once when gather returns.
AfterChunk(f) ==
    [f EXCEPT !.processed = @ + Min(f.chunk_size, f.total - f.i), !.i = @ + f.chunk_size]

\* The Job after `job.progress = tracker.percentage` and the metadata snapshot.
WithProgress(j, f) ==
    [j EXCEPT !.progress = Percentage(f.processed, f.total), !.metadata = PySnapshot]

\* One chunk: gather returns, the results are collected, the progress is written.
BatchChunk(w) ==
    /\ InBatch(w)
    /\ frame[w].chunk_size > 0
    /\ ~LoopDone(frame[w])
    /\ LET f == AfterChunk(frame[w])
           j == WithProgress(job[w].rec, f)
       IN  /\ frame' = [frame EXCEPT ![w] = f]
           /\ job' = [job EXCEPT ![w].rec = j]
           /\ jobs' = UpdateJob(jobs, job[w].id, j)
    /\ UNCHANGED <<processors, running, worker_tasks, pc, stopWait, hist, ret, tie>>

\* One chunk whose progress write raises: the exception leaves the processor, the
\* worker marks its Job (which carries the new progress) failed and writes it.
BatchChunkFault(w, m, ok) ==
    /\ InBatch(w)
    /\ frame[w].chunk_size > 0
    /\ ~LoopDone(frame[w])
    /\ FinalWrite(w, OnRaise(WithProgress(job[w].rec, AfterChunk(frame[w])), m, Stamp), m, ok)

\* The loop is over: the processor returns its summary, the worker writes the job.
BatchReturn(w, ok) ==
    /\ InBatch(w)
    /\ LoopDone(frame[w])
    /\ ProcReturn(w, PyDict, ok)

\* Before the first chunk: build_graph raises, or range() refuses a step of 0.
BatchRaise(w, m, ok) ==
    /\ InBatch(w)
    /\ frame[w].i = 0
    /\ ProcRaise(w, m, ok)

\* The queue with the batch agent processor as the processor of the registered type,
\* on a store whose progress writes may raise.  A job claimed before the
\* registration takes the no-processor branch.
ProgressNext ==
    \/ \E t \in Registrable : RegisterProcessor(t)
    \/ \E t \in Registrable : AddJob(t)
    \/ \E id \in JobIds : CancelJob(id)
    \/ Start
    \/ \E w \in Tasks : WorkerSleep(w)
    \/ \E w \in Tasks : WorkerClaim(w, TRUE)
    \/ \E w \in Tasks, n \in 1..MaxItems, c \in ChunkSizes : BatchBegin(w, n, c)
    \/ \E w \in Tasks : BatchEmpty(w, TRUE)
    \/ \E w \in Tasks : BatchChunk(w)
    \/ \E w \in Tasks, m \in Errors : BatchChunkFault(w, m, TRUE)
    \/ \E w \in Tasks : BatchReturn(w, TRUE)
    \/ \E w \in Tasks, m \in Errors : BatchRaise(w, m, TRUE)

ProgressSpec == Init /\ [][ProgressNext]_vars

\* ------------------------------------------------- the store, call by call

\* status=None / job_type=None: the filter is left out of the query.
NoFilter == "None"

\* list_jobs's WHERE clause.
Matching(js, s, t) ==
    {id \in DOMAIN js : (s = NoFilter \/ js[id].status = s) /\ (t = NoFilter \/ js[id].type = t)}

\* ORDER BY created_at DESC: a comes before b.  SQL leaves the order of rows of
\* equal created_at open; SQLite returns them in rowid order, which way depending
\* on the query plan (tb), the same way for every call of one query.
Before(js, tb, a, b) ==
    \/ js[a].created_at > js[b].created_at
    \/ /\ js[a].created_at = js[b].created_at
       /\ IF tb = "desc" THEN a > b ELSE a < b

\* Faulty variant of Ordered: ORDER BY created_at ASC.
OrderedAscending(js, tb, ids) ==
    [n \in 1..Cardinality(ids) |->
        CHOOSE id \in ids : Cardinality({k \in ids : Before(js, tb, id, k)}) = n - 1]

\* The matching rows in the order of the query.
Ordered(js, tb, ids) ==
    [n \in 1..Cardinality(ids) |->
        CHOOSE id \in ids : Cardinality({k \in ids : Before(js, tb, k, id)}) = n - 1]

\* LIMIT ? OFFSET ? of SQLite: a negative limit is no limit, a negative offset is 0.
Slice(seq, limit, offset) ==
    LET lo == IF offset < 0 THEN 0 ELSE offset
        hi == IF limit < 0 THEN Len(seq) ELSE Min(Len(seq), lo + limit)
    IN  SubSeq(seq, lo + 1, hi)

\* list_jobs(status, job_type, limit, offset): the Jobs of the rows fetched.
ListJobs(js, tb, s, t, limit, offset) ==
    LET ids == Slice(Ordered(js, tb, Matching(js, s, t)), limit, offset)
    IN  [n \in 1..Len(ids) |-> [id |-> ids[n], rec |-> FromRow(js[ids[n]])]]

\* SELECT status, COUNT(*) FROM jobs GROUP BY status
GroupByStatus(js) ==
    {<<s, Cardinality({id \in DOMAIN js : js[id].status = s})>> :
        s \in {js[id].status : id \in DOMAIN js}}

RECURSIVE SumCounts(_)
SumCounts(rows) ==
    IF rows = {} THEN 0
    ELSE LET r == CHOOSE x \in rows : TRUE IN r[2] + SumCounts(rows \ {r})

\* Faulty variant of GetStats: total counts the groups, not the jobs.
GetStatsCountsGroups(js) ==
    [k \in {"total"} \cup {r[1] : r \in GroupByStatus(js)} |->
        IF k = "total" THEN Cardinality(GroupByStatus(js))
        ELSE (CHOOSE r \in GroupByStatus(js) : r[1] = k)[2]]

\* get_stats(): stats = {"total": 0}; per group stats[status] = count, total += count.
GetStats(js) ==
    [k \in {"total"} \cup {r[1] : r \in GroupByStatus(js)} |->
        IF k = "total" THEN SumCounts(GroupByStatus(js))
        ELSE (CHOOSE r \in GroupByStatus(js) : r[1] = k)[2]]

\* get_job finds no row, _get_next_job claims none: None.
Absent == [absent |-> TRUE]

\* The id add_job makes, f"{job_type}-{uuid.uuid4().hex[:12]}": the type, then hex
\* digits no stored id carries (the row's position stands for them).
IdText(t, n) == <<t, n>>

\* (job_type, data, metadata) of the add_job calls explored: metadata left out, or given.
AddCalls == {<<"simple", PyEmpty, NULL>>, <<"unregistered_type", PyDict, PyDict>>}

\* What the callers of update_job do to the Job they hold before writing it: the
\* progress write of a processor and the final writes of a worker.
Mutations(j) ==
    {[j EXCEPT !.progress = 50, !.metadata = PySnapshot]}
        \cup {OnReturn(j, r, Stamp) : r \in Payloads}
        \cup {OnRaise(j, m, Stamp) : m \in Errors}

queue == <<processors, running, worker_tasks, pc, job, stopWait, hist, frame>>

\* job = await queue.add_job(t, d, md)
StoreAdd(t, d, md) ==
    /\ Len(jobs) < MaxJobs
    /\ \E created \in Clock(jobs) :
        LET j == JobOf(t, d, md, created)
        IN  /\ jobs' = Append(jobs, InsertRow(j))
            /\ ret' = [op |-> "add_job", args |-> <<t, d, md>>, id |-> Len(jobs) + 1,
                       text |-> IdText(t, Len(jobs) + 1), job |-> j]
    /\ UNCHANGED <<queue, tie>>

\* await queue.get_job(id)
StoreGet(id) ==
    /\ ret' = [op |-> "get_job", id |-> id,
               job |-> IF id \in Stored THEN GetJob(jobs, id) ELSE Absent]
    /\ UNCHANGED <<jobs, queue, tie>>

\* await queue.update_job(j), j the Job of a stored, unfinished job as its worker
\* or processor has changed it.
StoreUpdate(id) ==
    /\ id \in Stored
    /\ jobs[id].status \notin {"completed", "failed"}
    /\ \E j \in Mutations(GetJob(jobs, id)) :
        /\ jobs' = UpdateJob(jobs, id, j)
        /\ ret' = [op |-> "update_job", id |-> id, job |-> j]
    /\ UNCHANGED <<queue, tie>>

\* The store under the calls of its clients, one call at a time.
StoreNext ==
    \/ \E a \in AddCalls : StoreAdd(a[1], a[2], a[3])
    \/ \E id \in JobIds : StoreGet(id)
    \/ \E id \in JobIds : StoreUpdate(id)

StoreSpec == Init /\ [][StoreNext]_vars

\* ------------------------------------------- the store, ordered by created_at

\* time.time() at an add_job call: the wall clock may repeat its last reading or
\* step back.
Readings(js) ==
    IF js = <<>> THEN {1}
    ELSE {r \in {js[Len(js)].created_at - 1, js[Len(js)].created_at,
                 js[Len(js)].created_at + 1} : r >= 1}

TieBreaks == {"asc", "desc"}
StatusFilters == {NoFilter, "queued"}
TypeFilters == {NoFilter} \cup Registrable
Limits == (0 - 1)..MaxJobs

ListInit ==
    /\ jobs = <<>>
    /\ processors = {}
    /\ running = FALSE
    /\ worker_tasks = {}
    /\ pc = [w \in Tasks |-> "unborn"]
    /\ job = [w \in Tasks |-> NoJob]
    /\ stopWait = {}
    /\ hist = [j \in JobIds |-> NoHist]
    /\ frame = [w \in Tasks |-> NoFrame]
    /\ ret = NoRet
    /\ tie \in TieBreaks

\* add_job(t, {}) at a clock reading that may tie with the last one.
ListAdd(t) ==
    /\ Len(jobs) < MaxJobs
    /\ \E created \in Readings(jobs) :
        /\ jobs' = Append(jobs, InsertRow(NewJob(t, created)))
        /\ ret' = [op |-> "add_job", id |-> Len(jobs) + 1, job |-> NewJob(t, created)]
    /\ UNCHANGED <<queue, tie>>

\* await queue._get_next_job(): the row claimed, or None and no change.
StoreClaim ==
    /\ IF NextJob(jobs) = {}
       THEN jobs' = jobs /\ ret' = [op |-> "claim", id |-> 0, job |-> Absent]
       ELSE \E id \in NextJob(jobs) :
            /\ jobs' = Claim(jobs, id, Stamp)
            /\ ret' = [op |-> "claim", id |-> id, job |-> FromRow(jobs'[id])]
    /\ UNCHANGED <<queue, tie>>

\* await queue.list_jobs(status, job_type, limit, offset)
StoreList(s, t, limit, offset) ==
    /\ ret' = [op |-> "list_jobs", out |-> ListJobs(jobs, tie, s, t, limit, offset)]
    /\ UNCHANGED <<jobs, queue, tie>>

ListNext ==
    \/ \E t \in Types : ListAdd(t)
    \/ StoreClaim
    \/ \E s \in StatusFilters, t \in TypeFilters, l \in Limits, o \in Limits :
        StoreList(s, t, l, o)

ListSpec == ListInit /\ [][ListNext]_vars

\* ------------------------------------- a row whose payload cannot be decoded

\* A text json.loads rejects (json.JSONDecodeError).
Undecodable == "{corrupt"

\* json.loads(row[2]), json.loads(row[5]) if row[5], json.loads(row[10]) if row[10]
\* all return: Job.from_dict gets its dict.
RowDecodes(row) ==
    /\ row.data # Undecodable
    /\ row.result # Undecodable
    /\ row.metadata # Undecodable

\* The data column of one row is damaged behind the queue's back; no other row is.
Damage(id) ==
    /\ id \in Stored
    /\ \A k \in Stored : RowDecodes(jobs[k])
    /\ jobs' = [jobs EXCEPT ![id].data = Undecodable]
    /\ ret' = [op |-> "damage", id |-> id]
    /\ UNCHANGED <<queue, tie>>

\* await queue.get_job(id) of a stored id: the row is fetched, then decoded.
CorruptGet(id) ==
    /\ id \in Stored
    /\ ret' = [op |-> "get_job", id |-> id, raised |-> ~RowDecodes(jobs[id])]
    /\ UNCHANGED <<jobs, queue, tie>>

\* What list_jobs returns of the rows it fetched (ids): the loop decodes them one
\* after the other into one list, and an exception leaves the call with no list.
Listed(js, ids) ==
    IF \A n \in 1..Len(ids) : RowDecodes(js[ids[n]]) THEN {ids[n] : n \in 1..Len(ids)} ELSE {}

\* await queue.list_jobs(limit=limit): fetched are the rows of the query, returned
\* those of the list the caller gets.
CorruptList(limit) ==
    /\ LET ids == Slice(Ordered(jobs, tie, Matching(jobs, NoFilter, NoFilter)), limit, 0)
       IN  ret' = [op |-> "list_jobs", fetched |-> {ids[n] : n \in 1..Len(ids)},
                   returned |-> Listed(jobs, ids)]
    /\ UNCHANGED <<jobs, queue, tie>>

\* await queue._get_next_job(): the UPDATE ... RETURNING is committed, then the
\* returned row is decoded.
CorruptClaim ==
    /\ \E id \in NextJob(jobs) :
        /\ jobs' = Claim(jobs, id, Stamp)
        /\ ret' = [op |-> "claim", id |-> id, raised |-> ~RowDecodes(jobs[id])]
    /\ UNCHANGED <<queue, tie>>

CorruptNext ==
    \/ \E t \in Types : ListAdd(t)
    \/ \E id \in JobIds : Damage(id)
    \/ \E id \in JobIds : CorruptGet(id)
    \/ \E l \in Limits : CorruptList(l)
    \/ CorruptClaim

CorruptSpec == ListInit /\ [][CorruptNext]_vars

\* ------------------------------------- the batch processors, item by item

\* The four processors of processors.py.
Kinds == {"agent", "validation", "test", "mcp"}

\* job.data["parallel"] explored: negative, zero, binding, and above the cap.
Parallels == {0 - 1, 0, 1, 2, 11}

\* The cap on parallel.
ParallelCap == 10

\* Faulty variant of Clamp: the caller's value is used as it is.
ClampNone(par) == par

\* min(job.data.get("parallel", ...), 10)
Clamp(par) == Min(par, ParallelCap)

\* How an item's work unit ends.  agent, mcp: graph.ainvoke / tool.ainvoke returns
\* or raises.  validation, test: the command exits with a return code (0, 5: no
\* tests collected, 1: any other code), or create_subprocess_shell raises.
Outcomes(kind) ==
    IF kind \in {"validation", "test"} THEN {"rc0", "rc5", "rc1", "raised"}
    ELSE {"returned", "raised"}

\* Faulty variant of Success: the counters are corrected however the work unit ended.
SuccessAlways(kind, o) == TRUE

\* Whether the work unit counts as a success: it returned (agent, mcp);
\* returncode == 0 or returncode == 5 (validation); returncode == 0 (test).
Success(kind, o) ==
    CASE kind = "validation" -> o \in {"rc0", "rc5"}
      [] kind = "test" -> o = "rc0"
      [] OTHER -> o = "returned"

\* The "status" of the dict an item's coroutine returns.
RecordStatus(kind, o) ==
    CASE kind = "agent" -> IF o = "returned" THEN "completed" ELSE "failed"
      [] kind = "mcp" -> IF o = "returned" THEN "success" ELSE "failed"
      [] OTHER -> IF o = "raised" THEN "error"
                  ELSE IF Success(kind, o) THEN "passed" ELSE "failed"

\* The dict an item's coroutine returns: whose it is, its status, and whether it
\* carries "error": str(e).
Record(kind, k, o) == [of |-> k, status |-> RecordStatus(kind, o), error |-> o = "raised"]

\* str(e) of the ValueError of range(0, n, 0) and of asyncio.Semaphore(-1).
RangeError == "range() arg 3 must not be zero"
SemaphoreError == "Semaphore initial value must be >= 0"

\* ProgressTracker.increment(success, skip)
Increment(f, success, skip) ==
    [f EXCEPT !.processed = @ + 1,
              !.skipped = IF skip THEN @ + 1 ELSE @,
              !.successful = IF ~skip /\ success THEN @ + 1 ELSE @,
              !.failed = IF ~skip /\ ~success THEN @ + 1 ELSE @]

\* Faulty variant of Correct: the success is counted and the failure is not taken back.
CorrectForgetsFailed(f) == [f EXCEPT !.successful = @ + 1]

\* tracker.successful += 1; tracker.failed -= 1
Correct(f) == [f EXCEPT !.successful = @ + 1, !.failed = @ - 1]

\* The items of the chunk being gathered: tasks[i : i + chunk_size].
Chunk(f) == {k \in 1..f.total : f.i < k /\ k <= f.i + f.chunk_size}

InItems(w) == pc[w] = "proc" /\ frame[w] # NoFrame /\ "items" \in DOMAIN frame[w]

\* The processor reads its payload: n items, chunk_size c (agent only; the others
\* gather every item at once) and parallel par (given), capped (parallel).  ops and
\* tools stay empty where the operations of an mcp batch are not told apart.
ItemBegin(w, kind, n, par, c) ==
    /\ pc[w] = "proc"
    /\ frame[w] = NoFrame
    /\ kind # "agent" => c = n
    /\ frame' = [frame EXCEPT ![w] =
            [kind |-> kind, total |-> n, chunk_size |-> c, given |-> par, parallel |-> Clamp(par),
             i |-> 0, processed |-> 0, successful |-> 0, failed |-> 0, skipped |-> 0,
             items |-> [k \in 1..n |-> "wait"], sem |-> 0, results |-> <<>>,
             phase |-> "entered", ops |-> <<>>, tools |-> {}]]
    /\ UNCHANGED <<jobs, processors, running, worker_tasks, pc, job, stopWait, hist, ret, tie>>

\* Faulty variant of ItemEmpty: no `if not tasks` test, the empty list goes on into
\* the loop (which ItemSetup models).
ItemEmptyUnchecked(w) ==
    /\ InItems(w)
    /\ frame[w].phase = "entered"
    /\ frame[w].total = 0
    /\ frame' = [frame EXCEPT ![w].phase = "return"]
    /\ UNCHANGED <<jobs, processors, running, worker_tasks, pc, job, stopWait, hist, ret, tie>>

\* `if not tasks: return {"error": "No tasks provided"}`, and the worker's final write.
ItemEmpty(w) ==
    /\ InItems(w)
    /\ frame[w].phase = "entered"
    /\ frame[w].total = 0
    /\ ProcReturn(w, PyNoItems, TRUE)

\* What stops the processor before any item runs: range() with a step of 0 (agent),
\* else a negative Semaphore value; an agent whose range is empty makes no Semaphore.
SetupError(f) ==
    CASE f.kind = "agent" /\ f.chunk_size = 0 -> RangeError
      [] f.kind = "agent" /\ f.chunk_size < 0 -> NULL
      [] f.parallel < 0 -> SemaphoreError
      [] OTHER -> NULL

\* tracker = ProgressTracker(total), (agent: build_graph, the first range() step,)
\* semaphore = asyncio.Semaphore(parallel), and the await of gather.
ItemSetup(w) ==
    /\ InItems(w)
    /\ frame[w].phase = "entered"
    /\ frame[w].total > 0
    /\ SetupError(frame[w]) = NULL
    /\ frame' = [frame EXCEPT ![w].phase = IF LoopDone(frame[w]) THEN "return" ELSE "gather",
                              ![w].sem = frame[w].parallel]
    /\ UNCHANGED <<jobs, processors, running, worker_tasks, pc, job, stopWait, hist, ret, tie>>

\* The ValueError leaves the processor: the worker writes the job back as failed.
ItemSetupRaise(w) ==
    /\ InItems(w)
    /\ frame[w].phase = "entered"
    /\ frame[w].total > 0
    /\ SetupError(frame[w]) # NULL
    /\ ProcRaise(w, SetupError(frame[w]), TRUE)

\* Faulty variant of Acquirable: `async with semaphore` left out.
AcquirableAlways(f) == TRUE

\* asyncio.Semaphore.acquire does not wait when the value is positive.
Acquirable(f) == f.sem > 0

\* `async with semaphore:` entered by item k (waiters are served first come, first
\* served, and gather starts the items in list order), then
\* tracker.increment(success=False, current_item=...) and the work unit is awaited.
ItemStart(w, k) ==
    /\ InItems(w)
    /\ frame[w].phase = "gather"
    /\ k \in Chunk(frame[w])
    /\ frame[w].items[k] = "wait"
    /\ \A h \in Chunk(frame[w]) : h < k => frame[w].items[h] # "wait"
    /\ Acquirable(frame[w])
    /\ frame' = [frame EXCEPT ![w] =
            [Increment(frame[w], FALSE, FALSE) EXCEPT !.items[k] = "run", !.sem = @ - 1]]
    /\ UNCHANGED <<jobs, processors, running, worker_tasks, pc, job, stopWait, hist, ret, tie>>

\* The frame after item k's work unit ended with outcome o: the counters corrected
\* on a success, the dict returned, the semaphore released.
Ended(f, k, o) ==
    [(IF Success(f.kind, o) THEN Correct(f) ELSE f) EXCEPT !.items[k] = o, !.sem = @ + 1]

\* Item k's work unit ends.
ItemEnd(w, k, o) ==
    /\ InItems(w)
    /\ k \in DOMAIN frame[w].items
    /\ frame[w].items[k] = "run"
    /\ o \in Outcomes(frame[w].kind)
    /\ frame' = [frame EXCEPT ![w] = Ended(frame[w], k, o)]
    /\ UNCHANGED <<jobs, processors, running, worker_tasks, pc, job, stopWait, hist, ret, tie>>

RECURSIVE Records(_, _, _)
\* zip(chunk, chunk_results): the dicts of items from..to in list order.
Records(f, from, to) ==
    IF from > to THEN <<>>
    ELSE <<Record(f.kind, from, f.items[from])>> \o Records(f, from + 1, to)

\* gather has returned: the chunk's dicts are appended, job.progress and the
\* snapshot written, and the loop goes to the next chunk (a new Semaphore) or ends.
Collected(f) ==
    [f EXCEPT !.results = @ \o Records(f, f.i + 1, Min(f.total, f.i + f.chunk_size)),
              !.i = @ + f.chunk_size,
              !.sem = f.parallel,
              !.phase = IF f.i + f.chunk_size >= f.total THEN "return" ELSE "gather"]

ChunkCollect(w) ==
    /\ InItems(w)
    /\ frame[w].phase = "gather"
    /\ \A k \in Chunk(frame[w]) : frame[w].items[k] \in Outcomes(frame[w].kind)
    /\ LET j == WithProgress(job[w].rec, frame[w])
       IN  /\ frame' = [frame EXCEPT ![w] = Collected(frame[w])]
           /\ job' = [job EXCEPT ![w].rec = j]
           /\ jobs' = UpdateJob(jobs, job[w].id, j)
    /\ UNCHANGED <<processors, running, worker_tasks, pc, stopWait, hist, ret, tie>>

\* tracker.total, .successful, .failed, .skipped of the returned "summary".
Summary(f) ==
    [total |-> f.total, successful |-> f.successful, failed |-> f.failed, skipped |-> f.skipped]

\* `return {"summary": ..., "results": results, ...}`, and the worker's final write.
ItemReturn(w) ==
    /\ InItems(w)
    /\ frame[w].phase = "return"
    /\ ProcReturn(w, PySummary, TRUE)

\* One batch job in a running queue whose processor is one of the four, on a store
\* that raises nothing.
ItemInit ==
    /\ jobs = <<>>
    /\ processors = Registrable
    /\ running = TRUE
    /\ worker_tasks = Tasks
    /\ pc = [w \in Tasks |-> "idle"]
    /\ job = [w \in Tasks |-> NoJob]
    /\ stopWait = {}
    /\ hist = [j \in JobIds |-> NoHist]
    /\ frame = [w \in Tasks |-> NoFrame]
    /\ ret = NoRet
    /\ tie = "desc"

ItemAdd(t) ==
    /\ jobs = <<>>
    /\ AddJob(t)

ItemNext ==
    \/ \E t \in Registrable : ItemAdd(t)
    \/ \E id \in JobIds : CancelJob(id)
    \/ \E w \in Tasks : WorkerSleep(w)
    \/ \E w \in Tasks : WorkerClaim(w, TRUE)
    \/ \E w \in Tasks, kind \in Kinds, n \in 0..MaxItems, par \in Parallels, c \in ChunkSizes :
            ItemBegin(w, kind, n, par, c)
    \/ \E w \in Tasks : ItemEmpty(w)
    \/ \E w \in Tasks : ItemSetup(w)
    \/ \E w \in Tasks : ItemSetupRaise(w)
    \/ \E w \in Tasks, k \in 1..MaxItems : ItemStart(w, k)
    \/ \E w \in Tasks, k \in 1..MaxItems, o \in Outcomes("validation") \cup Outcomes("agent") :
            ItemEnd(w, k, o)
    \/ \E w \in Tasks : ChunkCollect(w)
    \/ \E w \in Tasks : ItemReturn(w)

ItemSpec == ItemInit /\ [][ItemNext]_vars

\* --------------------------------------- a batch larger than the cap

\* The batch sizes explored here: two items, and one item more than the cap.
CapSizes == {2, ParallelCap + 1}

\* A batch of a size in CapSizes with every explored parallel; an agent batch in one
\* chunk or in chunks of ParallelCap.  Every work unit succeeds.
CapBegin(w, kind, n, par, c) ==
    /\ c \in {n, ParallelCap}
    /\ ItemBegin(w, kind, n, par, c)

CapNext ==
    \/ \E t \in Registrable : ItemAdd(t)
    \/ \E w \in Tasks : WorkerSleep(w)
    \/ \E w \in Tasks : WorkerClaim(w, TRUE)
    \/ \E w \in Tasks, kind \in {"agent", "validation"}, n \in CapSizes, par \in Parallels,
         c \in CapSizes \cup {ParallelCap} : CapBegin(w, kind, n, par, c)
    \/ \E w \in Tasks : ItemSetup(w)
    \/ \E w \in Tasks : ItemSetupRaise(w)
    \/ \E w \in Tasks, k \in 1..(ParallelCap + 1) : ItemStart(w, k)
    \/ \E w \in Tasks, k \in 1..(ParallelCap + 1), o \in {"returned", "rc0"} : ItemEnd(w, k, o)
    \/ \E w \in Tasks : ChunkCollect(w)
    \/ \E w \in Tasks : ItemReturn(w)

CapSpec == ItemInit /\ [][CapNext]_vars

\* --------------------------------------- a command that never exits

\* The parallel values explored with commands that may never exit.
HangParallels == {1, 2}

\* A validation or test batch of n items.
HangBegin(w, kind, n, par) ==
    /\ kind \in {"validation", "test"}
    /\ n > 0
    /\ ItemBegin(w, kind, n, par, n)

\* The command of item k never exits: `await proc.communicate()` never returns.
\* The coroutine stays inside `async with semaphore`, and nothing in the
\* processors ends the wait.
ItemHang(w, k) ==
    /\ InItems(w)
    /\ frame[w].kind \in {"validation", "test"}
    /\ k \in DOMAIN frame[w].items
    /\ frame[w].items[k] = "run"
    /\ frame' = [frame EXCEPT ![w].items[k] = "hung"]
    /\ UNCHANGED <<jobs, processors, running, worker_tasks, pc, job, stopWait, hist, ret, tie>>

HangNext ==
    \/ \E t \in Registrable : ItemAdd(t)
    \/ \E w \in Tasks : WorkerSleep(w)
    \/ \E w \in Tasks : WorkerClaim(w, TRUE)
    \/ \E w \in Tasks, kind \in Kinds, n \in 1..MaxItems, par \in HangParallels :
            HangBegin(w, kind, n, par)
    \/ \E w \in Tasks : ItemSetup(w)
    \/ \E w \in Tasks, k \in 1..MaxItems : ItemStart(w, k)
    \/ \E w \in Tasks, k \in 1..MaxItems, o \in Outcomes("validation") : ItemEnd(w, k, o)
    \/ \E w \in Tasks, k \in 1..MaxItems : ItemHang(w, k)
    \/ \E w \in Tasks : ChunkCollect(w)
    \/ \E w \in Tasks : ItemReturn(w)

\* The event loop runs every coroutine that is ready, and a command that exits is
\* reaped: every step of a worker and of a processor that stays enabled is taken.
\* Nothing obliges a job to be submitted or a command to hang.
HangFairness ==
    /\ \A w \in Tasks : WF_vars(WorkerClaim(w, TRUE))
    /\ \A w \in Tasks : WF_vars(\E kind \in Kinds, n \in 1..MaxItems, par \in HangParallels :
                                    HangBegin(w, kind, n, par))
    /\ \A w \in Tasks : WF_vars(ItemSetup(w))
    /\ \A w \in Tasks, k \in 1..MaxItems : WF_vars(ItemStart(w, k))
    /\ \A w \in Tasks, k \in 1..MaxItems : WF_vars(\E o \in Outcomes("validation") : ItemEnd(w, k, o))
    /\ \A w \in Tasks : WF_vars(ChunkCollect(w))
    /\ \A w \in Tasks : WF_vars(ItemReturn(w))

HangSpec == ItemInit /\ [][HangNext]_vars /\ HangFairness

\* --------------------------------------- the operations of an mcp batch

MaxOps == 2         \* len(job.data["operations"]) explored

\* operation.get("type", "unknown"): the four known types, and "unknown" for a
\* missing type and for every other string.
OpTypes == {"read", "write", "list", "command", "unknown"}

\* The tool each known type looks up in tool_map.
ToolOf == [read |-> "read_file", write |-> "write_file", list |-> "list_directory",
           command |-> "run_command"]

\* The tool maps explored: no tool, two of the four, all four.
ToolMaps == {{}, {"read_file", "run_command"},
             {"read_file", "write_file", "list_directory", "run_command"}}

\* The parallel values explored with told-apart operations.
McpParallels == {1, 2}

RECURSIVE OpLists(_)
\* The lists of at most n operation types.
OpLists(n) ==
    IF n = 0 THEN {<<>>}
    ELSE OpLists(n - 1) \cup {Append(l, t) : l \in {m \in OpLists(n - 1) : Len(m) = n - 1}, t \in OpTypes}

\* Faulty variant of McpOutcome: no test of the type and none of the tool.
McpOutcomeUnchecked(type, tools, r) == r

\* How _execute_operation's try block ends: ValueError for a type that is not one
\* of the four and for a tool missing from tool_map, else as tool.ainvoke ends (r).
McpOutcome(type, tools, r) ==
    IF type \notin DOMAIN ToolOf THEN "raised"
    ELSE IF ToolOf[type] \notin tools THEN "raised"
    ELSE r

\* BatchMCPProcessor.process reads operations and parallel, and get_mcp_tools()
\* gives the tool map.
McpBegin(w, ops, tools, par) ==
    /\ pc[w] = "proc"
    /\ frame[w] = NoFrame
    /\ ops # <<>>
    /\ frame' = [frame EXCEPT ![w] =
            [kind |-> "mcp", total |-> Len(ops), chunk_size |-> Len(ops), given |-> par,
             parallel |-> Clamp(par), i |-> 0, processed |-> 0, successful |-> 0,
             failed |-> 0, skipped |-> 0, items |-> [k \in 1..Len(ops) |-> "wait"],
             sem |-> 0, results |-> <<>>, phase |-> "entered", ops |-> ops, tools |-> tools]]
    /\ UNCHANGED <<jobs, processors, running, worker_tasks, pc, job, stopWait, hist, ret, tie>>

\* Operation k ends; r is how the tool's ainvoke ends when it is reached.
McpEnd(w, k, r) ==
    /\ InItems(w)
    /\ k \in DOMAIN frame[w].ops
    /\ ItemEnd(w, k, McpOutcome(frame[w].ops[k], frame[w].tools, r))

McpNext ==
    \/ \E t \in Registrable : ItemAdd(t)
    \/ \E w \in Tasks : WorkerSleep(w)
    \/ \E w \in Tasks : WorkerClaim(w, TRUE)
    \/ \E w \in Tasks, ops \in OpLists(MaxOps), tools \in ToolMaps, par \in McpParallels :
            McpBegin(w, ops, tools, par)
    \/ \E w \in Tasks : ItemSetup(w)
    \/ \E w \in Tasks, k \in 1..MaxOps : ItemStart(w, k)
    \/ \E w \in Tasks, k \in 1..MaxOps, r \in Outcomes("mcp") : McpEnd(w, k, r)
    \/ \E w \in Tasks : ChunkCollect(w)
    \/ \E w \in Tasks : ItemReturn(w)

McpSpec == ItemInit /\ [][McpNext]_vars

\* --------------------------------------- the Celery single-item tasks

\* How the processor's sub-operation ends when the Celery task drives it with its
\* MockTracker, a class with increment() and no counters: on a success
\* `tracker.successful += 1` raises AttributeError inside the try block, and the
\* sub-operation's except clause makes it the item's error.
MockTrackerOutcome(kind, o) == IF Success(kind, o) THEN "raised" ELSE o

\* The dict the Celery task returns for item k whose work unit ends with o.
\* process_validation and process_test import asyncio inside the function, after
\* `loop = asyncio.new_event_loop()`: the name is local, the call raises
\* UnboundLocalError before the work unit is started, and the task's own except
\* clause returns the error dict.  process_mcp_operation reaches the sub-operation.
CeleryRecord(kind, k, o) ==
    IF kind \in {"validation", "test"} THEN [of |-> k, status |-> "error", error |-> TRUE]
    ELSE Record(kind, k, MockTrackerOutcome(kind, o))

\* The calls explored: item k of a validation or test batch whose command ends with
\* o, or an mcp operation of a type, with a tool map, whose tool call ends with o.
CeleryCalls ==
    {[kind |-> kind, k |-> k, type |-> "none", tools |-> {}, o |-> o] :
        kind \in {"validation", "test"}, k \in 1..MaxItems, o \in Outcomes("validation")}
    \cup {[kind |-> "mcp", k |-> k, type |-> t, tools |-> tm, o |-> McpOutcome(t, tm, r)] :
            k \in 1..MaxItems, t \in OpTypes, tm \in ToolMaps, r \in Outcomes("mcp")}

\* process_validation(target, check_command), process_test(module, test_command),
\* process_mcp_operation(operation)
CeleryCall(c) ==
    /\ ret' = [op |-> "celery", call |-> c, record |-> CeleryRecord(c.kind, c.k, c.o)]
    /\ UNCHANGED <<jobs, queue, tie>>

\* The same item as a sub-operation of the in-process processor, with a
\* ProgressTracker.
SubOperation(c) ==
    /\ ret' = [op |-> "sub", call |-> c, record |-> Record(c.kind, c.k, c.o)]
    /\ UNCHANGED <<jobs, queue, tie>>

CeleryNext ==
    \/ \E c \in CeleryCalls : CeleryCall(c)
    \/ \E c \in CeleryCalls : SubOperation(c)

CelerySpec == ItemInit /\ [][CeleryNext]_vars

\* ------------------------------------------------- a ProgressTracker alone

\* ProgressTracker(total=n); pending counts the items that have called
\* increment(success=False) and whose work unit has not ended yet.
NewTracker(n) ==
    [total |-> n, processed |-> 0, successful |-> 0, failed |-> 0, skipped |-> 0,
     pending |-> 0]

\* The tracker of this section is held in the first slot of frame; no worker runs.
TrackerInit ==
    /\ jobs = <<>>
    /\ processors = {}
    /\ running = FALSE
    /\ worker_tasks = {}
    /\ pc = [w \in Tasks |-> "unborn"]
    /\ job = [w \in Tasks |-> NoJob]
    /\ stopWait = {}
    /\ hist = [j \in JobIds |-> NoHist]
    /\ \E n \in 0..MaxItems : frame = [w \in Tasks |-> IF w = 1 THEN NewTracker(n) ELSE NoFrame]
    /\ ret = NoRet
    /\ tie = "desc"

\* tracker.increment(success=..., skip=...) called by any client, up to one call
\* more than MaxItems (the tracker does not refuse calls beyond total).
TrackerIncrement(success, skip) ==
    /\ frame[1].processed <= MaxItems
    /\ frame' = [frame EXCEPT ![1] = Increment(@, success, skip)]
    /\ UNCHANGED <<jobs, processors, running, worker_tasks, pc, job, stopWait, hist, ret, tie>>

\* An item coroutine of a processor: tracker.increment(success=False, ...) and the
\* await of its work unit.
TrackerItemStart ==
    /\ frame[1].processed <= MaxItems
    /\ frame' = [frame EXCEPT ![1] = [Increment(@, FALSE, FALSE) EXCEPT !.pending = @ + 1]]
    /\ UNCHANGED <<jobs, processors, running, worker_tasks, pc, job, stopWait, hist, ret, tie>>

\* The work unit of an item ended: with a success the counters are corrected.
TrackerItemEnd(success) ==
    /\ frame[1].pending > 0
    /\ frame' = [frame EXCEPT ![1] =
            [(IF success THEN Correct(@) ELSE @) EXCEPT !.pending = @ - 1]]
    /\ UNCHANGED <<jobs, processors, running, worker_tasks, pc, job, stopWait, hist, ret, tie>>

TrackerNext ==
    \/ \E success \in BOOLEAN, skip \in BOOLEAN : TrackerIncrement(success, skip)
    \/ TrackerItemStart
    \/ \E success \in BOOLEAN : TrackerItemEnd(success)

TrackerSpec == TrackerInit /\ [][TrackerNext]_vars

\* ------------------------------------------- Job.to_dict and Job.from_dict

\* JobStatus is a str Enum: a member compares equal to its value, which is why the
\* queue sections write a member by its value.  to_dict and from_dict convert
\* between the two, so here a member is written by its name.
Members == {"QUEUED", "RUNNING", "COMPLETED", "FAILED", "CANCELLED"}

\* JobStatus.<member>.value
Value(m) ==
    CASE m = "QUEUED" -> "queued"
      [] m = "RUNNING" -> "running"
      [] m = "COMPLETED" -> "completed"
      [] m = "FAILED" -> "failed"
      [] m = "CANCELLED" -> "cancelled"

\* JobStatus(value): the member with that value (ValueError when there is none).
Member(v) ==
    CASE v = "queued" -> "QUEUED"
      [] v = "running" -> "RUNNING"
      [] v = "completed" -> "COMPLETED"
      [] v = "failed" -> "FAILED"
      [] v = "cancelled" -> "CANCELLED"
      [] OTHER -> "ValueError"

\* The Job objects explored: every status with every mix of set and unset fields.
JobObjects ==
    [id : {IdText("simple", 1)}, type : Types, data : {PyEmpty, PyDict}, status : Members,
     progress : {0, 50, 100}, result : {NULL, PyEmpty, PyDict}, error : {NULL} \cup Errors,
     created_at : {Stamp, Stamp + 1}, started_at : {NoTime, Stamp},
     completed_at : {NoTime, Stamp}, metadata : {PyEmpty, PySnapshot}]

\* Faulty variant of ToDict: the "metadata" key is left out.
ToDictNoMetadata(j) ==
    [k \in {"id", "type", "data", "status", "progress", "result", "error", "created_at",
            "started_at", "completed_at"} |->
        IF k = "status" THEN Value(j.status) ELSE j[k]]

\* Job.to_dict: the eleven fields by name, the status by its value.
ToDict(j) ==
    [k \in {"id", "type", "data", "status", "progress", "result", "error", "created_at",
            "started_at", "completed_at", "metadata"} |->
        IF k = "status" THEN Value(j.status) ELSE j[k]]

\* dict.get(key, default)
Get(d, key, default) == IF key \in DOMAIN d THEN d[key] ELSE default

\* Job.from_dict: id, type, data and status are read by subscript, the others with
\* get and the dataclass defaults (now: the time.time() reading for created_at).
FromDict(d, now) ==
    [id |-> d["id"], type |-> d["type"], data |-> d["data"], status |-> Member(d["status"]),
     progress |-> Get(d, "progress", 0), result |-> Get(d, "result", NULL),
     error |-> Get(d, "error", NULL), created_at |-> Get(d, "created_at", now),
     started_at |-> Get(d, "started_at", NoTime),
     completed_at |-> Get(d, "completed_at", NoTime),
     metadata |-> Get(d, "metadata", PyEmpty)]

\* A Job object in the hands of a client; the queue is not involved.
DictInit ==
    /\ jobs = <<>>
    /\ processors = {}
    /\ running = FALSE
    /\ worker_tasks = {}
    /\ pc = [w \in Tasks |-> "unborn"]
    /\ job = [w \in Tasks |-> NoJob]
    /\ stopWait = {}
    /\ hist = [j \in JobIds |-> NoHist]
    /\ frame = [w \in Tasks |-> NoFrame]
    /\ ret \in {[op |-> "Job", job |-> j] : j \in JobObjects}
    /\ tie = "desc"

\* d = job.to_dict()
ToDictCall ==
    /\ ret.op = "Job"
    /\ ret' = [op |-> "to_dict", job |-> ret.job, dict |-> ToDict(ret.job)]
    /\ UNCHANGED <<jobs, queue, tie>>

\* back = Job.from_dict(d), at a later clock reading than the job's creation.
FromDictCall ==
    /\ ret.op = "to_dict"
    /\ ret' = [op |-> "from_dict", job |-> ret.job, dict |-> ret.dict,
               back |-> FromDict(ret.dict, ret.job.created_at + 1)]
    /\ UNCHANGED <<jobs, queue, tie>>

DictNext == ToDictCall \/ FromDictCall

DictSpec == DictInit /\ [][DictNext]_vars

\* ------------------------------------------------- core/supervisor.py

MaxPlan == 2        \* steps of a plan explored

\* The specialties a planner step may carry, and the nodes the supervisor routes to.
Specialties == {"backend", "frontend", "tests", "devops", "security", "docs", "general"}
Routes == {"Planner", "Architect", "DevOps", "CodingSquad", "FINISH"}

\* res.content of the LLM: {"next": <route>}, a JSON object without "next", or text
\* that json.loads refuses.
Replies == Routes \cup {"{}", "not json"}

\* json.loads(res.content).get("next", "FINISH"), "FINISH" on any exception.
Decision(reply) == IF reply \in Routes THEN reply ELSE "FINISH"

RECURSIVE Plans(_)
\* The plans of exactly n steps.
Plans(n) ==
    IF n = 0 THEN {<<>>}
    ELSE {Append(p, sp) : p \in Plans(n - 1), sp \in Specialties}

\* The states supervisor_node is first called with: a plan of up to MaxPlan steps
\* at step_index 0, or no plan at all.
SupStates ==
    {[plan |-> p, step_index |-> 0] : p \in UNION {Plans(n) : n \in 0..MaxPlan}}
        \cup {[loop_count |-> 0]}

\* The dict supervisor_node returns.  The LLM is built and invoked on every call;
\* plan, step_index and current_specialty are copied from the state.
SupervisorNode(state, reply) ==
    [next |-> Decision(reply),
     plan |-> Get(state, "plan", <<>>),
     step_index |-> Get(state, "step_index", 0),
     current_specialty |-> Get(state, "current_specialty", "")]

\* {**state, **out}: the state the next call sees.
Merge(state, out) ==
    [k \in DOMAIN state \cup DOMAIN out |-> IF k \in DOMAIN out THEN out[k] ELSE state[k]]

\* The state the next call of supervisor_node is made with.
SupNow == IF ret.op = "state" THEN ret.state ELSE Merge(ret.state, ret.out)

SupInit ==
    /\ jobs = <<>>
    /\ processors = {}
    /\ running = FALSE
    /\ worker_tasks = {}
    /\ pc = [w \in Tasks |-> "unborn"]
    /\ job = [w \in Tasks |-> NoJob]
    /\ stopWait = {}
    /\ hist = [j \in JobIds |-> NoHist]
    /\ frame = [w \in Tasks |-> NoFrame]
    /\ ret \in {[op |-> "state", state |-> st] : st \in SupStates}
    /\ tie = "desc"

\* One call supervisor_node(state): the LLM answers reply (llm: it was invoked).
SupervisorCall(reply) ==
    /\ ret.op = "supervisor_node" => ret.out.next # "FINISH"
    /\ ret' = [op |-> "supervisor_node", state |-> SupNow, llm |-> TRUE,
               out |-> SupervisorNode(SupNow, reply)]
    /\ UNCHANGED <<jobs, queue, tie>>

SupNext == \E reply \in Replies : SupervisorCall(reply)

SupSpec == SupInit /\ [][SupNext]_vars

\* ------------------------------------------------------------------ claims

Row(id) == GetJob(jobs, id)
InProc(w) == pc[w] = "proc"

\* C1: whatever the interleaving of the workers' claims, a job goes from queued to
\* running at most once and is held by at most one worker: two workers in a
\* processor call never hold the same job id.
C1_AtMostOneClaim ==
    /\ \A id \in JobIds : hist[id].claims <= 1
    /\ \A w1, w2 \in Tasks :
        (w1 # w2 /\ InProc(w1) /\ InProc(w2)) => job[w1].id # job[w2].id

\* Two workers have raced for two queued jobs and each holds one.
C1_Witness ==
    \E w1, w2 \in Tasks :
        /\ w1 # w2 /\ InProc(w1) /\ InProc(w2)
        /\ hist[job[w1].id].claims = 1 /\ hist[job[w2].id].claims = 1

\* C2: a stored status that is completed, failed or cancelled never changes again,
\* and the only status changes are queued->running, queued->cancelled and
\* running->{completed, failed, cancelled}.  (A worker's step may commit two of
\* these in a row, queued->running->failed in the no-processor branch, so a step
\* is held against their compositions.)
C2_StatusLattice ==
    [][\A id \in DOMAIN jobs :
        \/ jobs'[id].status = jobs[id].status
        \/ jobs[id].status = "queued"
        \/ /\ jobs[id].status = "running"
           /\ jobs'[id].status \in Terminal]_vars

\* C3: a job whose processor returned payload R is stored completed with result R,
\* progress 100 and completed_at set.
C3_SuccessStored ==
    \A id \in DOMAIN jobs :
        hist[id].outcome \in Payloads =>
            /\ Row(id).status = "completed"
            /\ Row(id).result = hist[id].outcome
            /\ Row(id).progress = 100
            /\ Row(id).completed_at # NoTime

\* C4: a job whose processor raised is stored failed with error str(e), completed_at
\* set and a null result, whatever progress was persisted before.
C4_FailureStored ==
    \A id \in DOMAIN jobs :
        hist[id].outcome \in Errors =>
            /\ Row(id).status = "failed"
            /\ Row(id).error = hist[id].outcome
            /\ Row(id).completed_at # NoTime
            /\ Row(id).result = NULL

\* A processor has persisted progress 50 and then raised.
C4_Witness ==
    \E id \in DOMAIN jobs :
        /\ hist[id].outcome \in Errors
        /\ Row(id).status = "failed"
        /\ Row(id).progress = 50

\* A job claimed with no processor registered for its type: failed, with the error
\* naming the missing processor and completed_at set, claimed once, no processor run.
NoProcessorOutcome ==
    \A id \in DOMAIN jobs :
        hist[id].outcome = "noproc" =>
            /\ Row(id).status = "failed"
            /\ Row(id).error = NoProcessorError
            /\ Row(id).completed_at # NoTime
            /\ hist[id].claims = 1
            /\ hist[id].invoked = 0

\* C5: while the queue is running, a queued job of a type no processor is ever
\* registered for becomes failed (unless it is cancelled first), with the error
\* naming the missing processor and completed_at set; it is claimed once and no
\* processor is run for it.
C5_NoProcessorFails ==
    /\ []NoProcessorOutcome
    /\ \A id \in JobIds :
        (running /\ id \in Stored /\ jobs[id].status = "queued"
            /\ jobs[id].type \notin Registrable)
        ~> (id \in Stored /\ (jobs[id].status = "cancelled" \/ hist[id].outcome = "noproc"))

\* A job of the never registered type has been failed by a worker.
C5_Witness ==
    \E id \in DOMAIN jobs :
        /\ jobs[id].type \notin Registrable
        /\ hist[id].outcome = "noproc"
        /\ jobs[id].status = "failed"

\* C6: no exception of a processor or of a store operation ends a worker: a worker
\* leaves its loop only at the loop head with _running false; and a job whose
\* final write went through carries the outcome of its own processor even when the
\* write of another job raised.
C6_WorkerSurvives ==
    /\ [][\A w \in Tasks :
            (pc[w] \in {"idle", "proc"} /\ pc'[w] \notin {"idle", "proc"})
                => (pc[w] = "idle" /\ ~running)]_vars
    /\ [](\A id \in DOMAIN jobs :
            /\ hist[id].outcome \in Payloads => jobs[id].status = "completed"
            /\ hist[id].outcome \in Errors \cup {"noproc"} => jobs[id].status = "failed")

\* The final write of job 1 raised; the workers went on and job 2, claimed after it,
\* is stored with its processor's outcome, and both workers are at the loop head.
C6_Witness ==
    /\ running
    /\ Len(jobs) >= 2
    /\ hist[1].lost
    /\ hist[2].outcome \in Payloads \cup Errors
    /\ \A w \in worker_tasks : pc[w] = "idle"

\* C7: cancel_job(id) returns True exactly when the job exists with status queued or
\* running, and then the row is cancelled with completed_at set; otherwise it
\* returns False and changes no row.  A True return changes no other row.
C7_CancelJob ==
    /\ [](\A id \in JobIds :
            CancelReturns(jobs, id)
                <=> (id \in Stored /\ jobs[id].status \in {"queued", "running"}))
    /\ [][\A id \in JobIds :
            CancelJob(id) =>
                IF id \in Stored /\ jobs[id].status \in {"queued", "running"}
                THEN /\ jobs'[id].status = "cancelled"
                     /\ jobs'[id].completed_at # NoTime
                     /\ \A k \in DOMAIN jobs : k # id => jobs'[k] = jobs[k]
                ELSE jobs' = jobs]_vars

\* cancel_job has returned True for a running job: the row is cancelled, stamped.
C7_Witness ==
    \E id \in DOMAIN jobs :
        /\ jobs[id].status = "cancelled"
        /\ jobs[id].started_at # NoTime
        /\ jobs[id].completed_at # NoTime

\* C8: a job cancelled while queued stays cancelled: no worker claims it, no
\* processor is run for it, and cancel_job on it returns False from then on.
C8_CancelledQueuedStays ==
    \A id \in JobIds :
        hist[id].cancelledQueued =>
            /\ id \in Stored
            /\ jobs[id].status = "cancelled"
            /\ hist[id].claims = 0
            /\ hist[id].invoked = 0
            /\ \A w \in Tasks : InProc(w) => job[w].id # id
            /\ ~CancelReturns(jobs, id)

\* A job was cancelled while queued and the workers have claimed a younger job past it.
C8_Witness ==
    \E id, k \in DOMAIN jobs :
        /\ id < k
        /\ hist[id].cancelledQueued
        /\ hist[k].claims = 1

\* C9: cancel_job on a running job rewrites the row and nothing else: the worker
\* stays in its processor call with its local Job untouched; and when the call ends,
\* the worker's final write replaces the stored cancelled status by completed or
\* failed.
C9_CancelRunningOverwritten ==
    /\ [][\A id \in DOMAIN jobs :
            (jobs[id].status = "running" /\ CancelJob(id))
                => (pc' = pc /\ job' = job /\ jobs'[id].status = "cancelled")]_vars
    /\ [][\A w \in Tasks :
            (InProc(w) /\ jobs[job[w].id].status = "cancelled"
                /\ pc'[w] = "idle" /\ ~hist'[job[w].id].lost)
                => jobs'[job[w].id].status \in {"completed", "failed"}]_vars

\* The row is cancelled while the worker is still in the processor call for it.
C9_Witness ==
    \E w \in Tasks : InProc(w) /\ jobs[job[w].id].status = "cancelled"

\* C10: in every stored state the result is non-null exactly when the status is
\* completed and the error is non-null exactly when the status is failed.
C10_ResultErrorInvariant ==
    \A id \in DOMAIN jobs :
        /\ Row(id).result # NULL <=> Row(id).status = "completed"
        /\ Row(id).error # NULL <=> Row(id).status = "failed"

\* C11: over a job's lifetime the persisted progress never decreases, whoever
\* writes it (the processor between chunks, cancel_job, the worker's final write);
\* it stays within 0..100 and is 100 whenever the stored status is completed.
C11_ProgressMonotone ==
    /\ [][\A id \in DOMAIN jobs : jobs'[id].progress >= jobs[id].progress]_vars
    /\ [](\A id \in DOMAIN jobs :
            /\ jobs[id].progress \in 0..100
            /\ jobs[id].status = "completed" => jobs[id].progress = 100)

\* A job was cancelled between two chunks; the processor went on, wrote the progress
\* of a later chunk over the cancelled row and is still in its loop.
C11_Witness ==
    \E w \in Tasks :
        /\ InBatch(w)
        /\ frame[w].i >= 2 * frame[w].chunk_size
        /\ ~LoopDone(frame[w])
        /\ jobs[job[w].id].completed_at # NoTime
        /\ jobs[job[w].id].progress \in 1..99

C13_ClaimOrder ==
    /\ [][StoreClaim =>
            IF \E k \in DOMAIN jobs : jobs[k].status = "queued"
            THEN /\ ret'.id \in DOMAIN jobs
                 /\ jobs[ret'.id].status = "queued"
                 /\ \A k \in DOMAIN jobs :
                        jobs[k].status = "queued"
                            => jobs[ret'.id].created_at <= jobs[k].created_at
                 /\ jobs'[ret'.id].status = "running"
                 /\ ret'.job = FromRow(jobs'[ret'.id])
                 /\ \A k \in DOMAIN jobs : k # ret'.id => jobs'[k] = jobs[k]
            ELSE jobs' = jobs /\ ret'.job = Absent]_vars
    /\ [][\A a, b \in DOMAIN jobs :
            (jobs[a].status = "queued" /\ jobs[b].status = "queued"
                /\ jobs[a].created_at < jobs[b].created_at)
            => ~(jobs'[b].status = "running" /\ jobs'[a].status = "queued")]_vars

\* Two queued jobs of equal created_at: the claim took the one inserted last and
\* the other is still queued.
C13_Witness ==
    /\ ret.op = "claim"
    /\ ret.id = 2
    /\ jobs[1].status = "queued"
    /\ jobs[1].created_at = jobs[2].created_at

\* The worker loops that have not returned.
Alive == {w \in DOMAIN pc : pc[w] \in {"idle", "proc"}}

\* stop() returns in this step: gather has returned, or _worker_tasks was empty.
StopReturns == StopReturn \/ (Stop /\ worker_tasks = {})

\* C14: when stop() returns every worker loop has ended and no worker is left in
\* the processor call of a job; and while the queue is stopped (until the next
\* start()) no job goes from queued to running.
C14_StopQuiesces ==
    /\ [][StopReturns => (Alive' = {} /\ \A w \in DOMAIN pc : job'[w] = NoJob)]_vars
    /\ [][(~running /\ ~running' /\ stopWait = {}) =>
            \A id \in DOMAIN jobs :
                jobs[id].status = "queued" => jobs'[id].status # "running"]_vars

\* C15: start() on a running queue changes nothing, so with start() called any
\* number of times and stop() never, a running queue has exactly max_workers
\* worker loops and as many tasks in _worker_tasks.
C15_StartIdempotent ==
    /\ [][(running /\ Start) => UNCHANGED vars]_vars
    /\ [](running => (Cardinality(Alive) = max_workers
                        /\ Cardinality(worker_tasks) = max_workers))
    /\ [](~running => Alive = {})

\* The queue is running with every worker in a processor call, and start() can be
\* called again.
C15_Witness ==
    /\ running
    /\ ENABLED Start
    /\ Cardinality(Unborn) >= max_workers
    /\ \A w \in worker_tasks : InProc(w)

\* C16: in every reachable state get_stats() holds, for each status, the number
\* of stored jobs of that status, and no key for a status no job has; total is
\* the number of stored jobs, which is the number of jobs added (nothing deletes
\* a row).
C16_StatsAccurate ==
    LET stats == GetStats(jobs)
        Count(s) == Cardinality({id \in DOMAIN jobs : jobs[id].status = s})
    IN  /\ DOMAIN stats \subseteq JobStatus \cup {"total"}
        /\ \A s \in JobStatus :
            IF Count(s) = 0 THEN s \notin DOMAIN stats
            ELSE s \in DOMAIN stats /\ stats[s] = Count(s)
        /\ stats["total"] = Len(jobs)

\* Two jobs that share a status and a third status absent: both jobs were claimed,
\* then both cancelled while running.
C16_Witness ==
    /\ Len(jobs) = 2
    /\ GetStats(jobs) = [k \in {"total", "cancelled"} |-> 2]
    /\ \A w \in worker_tasks : InProc(w)

\* C17: add_job(type, data, metadata) stores and returns a job under an id no
\* stored job had, prefixed by the type, queued, progress 0, result, error,
\* started_at and completed_at null, with the data and metadata given ({} for no
\* metadata); get_job(id) right after returns that job; get_job of an unknown id
\* returns None; and add_job changes no other row.
C17_AddJobGetJob ==
    /\ [](ret.op = "add_job" =>
            /\ ret.id = Len(jobs)
            /\ ret.text = IdText(ret.args[1], ret.id)
            /\ ret.job.type = ret.args[1]
            /\ ret.job.data = ret.args[2]
            /\ ret.job.metadata = (IF ret.args[3] = NULL THEN PyEmpty ELSE ret.args[3])
            /\ ret.job.status = "queued"
            /\ ret.job.progress = 0
            /\ ret.job.result = NULL /\ ret.job.error = NULL
            /\ ret.job.started_at = NoTime /\ ret.job.completed_at = NoTime
            /\ GetJob(jobs, ret.id) = ret.job)
    /\ [](ret.op = "get_job" =>
            IF ret.id \in Stored THEN ret.job = FromRow(jobs[ret.id]) ELSE ret.job = Absent)
    /\ [][Len(jobs') > Len(jobs) =>
            /\ Len(jobs') = Len(jobs) + 1
            /\ \A k \in DOMAIN jobs : jobs'[k] = jobs[k]]_vars

\* A job was added with data and metadata given, next to a job already completed.
C17_Witness ==
    /\ ret.op = "add_job"
    /\ ret.id = 2
    /\ ret.job.metadata = PyDict
    /\ jobs[1].status = "completed"

\* The jobs list_jobs(s, t, MaxJobs, 0) must return: the matching jobs, each once,
\* by created_at descending.
IsFullList(all, s, t) ==
    /\ Len(all) = Cardinality(Matching(jobs, s, t))
    /\ {all[n].id : n \in 1..Len(all)} = Matching(jobs, s, t)
    /\ \A n \in 1..Len(all) : all[n].rec = FromRow(jobs[all[n].id])
    /\ \A n \in 1..(Len(all) - 1) : all[n].rec.created_at >= all[n + 1].rec.created_at

C19_UpdateIdempotent ==
    ret.op = "update_job" =>
        /\ UpdateJob(jobs, ret.id, ret.job) = jobs
        /\ GetJob(jobs, ret.id).status = ret.job.status
        /\ GetJob(jobs, ret.id).progress = ret.job.progress
        /\ GetJob(jobs, ret.id).result = ret.job.result
        /\ GetJob(jobs, ret.id).error = ret.job.error
        /\ GetJob(jobs, ret.id).started_at = ret.job.started_at
        /\ GetJob(jobs, ret.id).completed_at = ret.job.completed_at
        /\ GetJob(jobs, ret.id).metadata = ret.job.metadata

\* C20: the processor lookup happens when the job is claimed: a claim starts a
\* processor call exactly when a processor is registered for the job's type at
\* that instant, so a job still queued at a registration is run by the processor
\* registered; and a job that failed for want of a processor stays failed, with no
\* processor ever run for it, whatever is registered later.
C20_LookupAtClaim ==
    /\ [][\A id \in DOMAIN jobs :
            hist'[id].claims > hist[id].claims =>
                (hist'[id].invoked > hist[id].invoked <=> jobs[id].type \in processors)]_vars
    /\ [](\A id \in DOMAIN jobs :
            hist[id].outcome = "noproc" =>
                /\ jobs[id].status = "failed"
                /\ jobs[id].error = NoProcessorError
                /\ hist[id].invoked = 0)

\* Job 1 was claimed before the registration and failed; its type was registered
\* afterwards; job 2 of the same type, claimed after that, is in the processor.
C20_Witness ==
    /\ Len(jobs) = 2
    /\ hist[1].outcome = "noproc"
    /\ jobs[1].status = "failed"
    /\ jobs[1].type \in processors
    /\ jobs[2].type = jobs[1].type
    /\ \E w \in Tasks : InProc(w) /\ job[w].id = 2

\* What the processor call of job id ended with, item by item (NoFrame: no such call).
Batch(id) == hist[id].batch

Raised(f) == {k \in DOMAIN f.items : f.items[k] = "raised"}

\* C21: item isolation.  A batch of N items in which the work unit of some item
\* raised: the processor returned its summary, the job is stored completed,
\* summary.total = N and summary.failed >= 1, the results hold one record per item in
\* list order, the record of a raising item has status failed or error and carries
\* the error, and the record of every other item carries no error and the status of
\* its own outcome.
C21_ItemIsolation ==
    \A id \in Stored :
        (Batch(id) # NoFrame /\ Raised(Batch(id)) # {}) =>
            LET f == Batch(id)
                N == Len(f.items)
            IN  /\ hist[id].outcome = PySummary
                /\ jobs[id].status = "completed"
                /\ Loads(jobs[id].result) = PySummary
                /\ Summary(f).total = N
                /\ Summary(f).failed >= 1
                /\ Len(f.results) = N
                /\ \A k \in 1..N :
                    /\ f.results[k].of = k
                    /\ f.items[k] = "raised" =>
                        f.results[k].status \in {"failed", "error"} /\ f.results[k].error
                    /\ f.items[k] # "raised" =>
                        /\ ~f.results[k].error
                        /\ f.items[k] = "returned" => f.results[k].status \in {"completed", "success"}
                        /\ f.items[k] = "rc0" => f.results[k].status = "passed"
                        /\ f.items[k] = "rc1" => f.results[k].status = "failed"

\* A batch of MaxItems agent tasks gathered in chunks of one: the second raised, the
\* others returned, and the job is stored completed.
C21_Witness ==
    \E id \in Stored :
        /\ jobs[id].status = "completed"
        /\ Batch(id) # NoFrame
        /\ Batch(id).kind = "agent"
        /\ Batch(id).total = MaxItems
        /\ Batch(id).chunk_size = 1
        /\ Raised(Batch(id)) = {2}
        /\ \A k \in 1..MaxItems : k # 2 => Batch(id).results[k].status = "completed"

\* C22: empty batch.  For each of the four processors, a call whose item list is
\* empty or missing starts no item and writes no progress; it returns the dict with
\* the error field, and the job is stored completed with that dict as its result.
C22_EmptyBatch ==
    /\ \A w \in Tasks :
        (InItems(w) /\ frame[w].total = 0) =>
            /\ frame[w].phase = "entered"
            /\ frame[w].processed = 0
            /\ job[w].rec.metadata = PyEmpty
            /\ job[w].rec.progress = 0
    /\ \A id \in Stored :
        (Batch(id) # NoFrame /\ Batch(id).total = 0) =>
            /\ hist[id].outcome = PyNoItems
            /\ jobs[id].status = "completed"
            /\ jobs[id].error = NULL
            /\ Loads(jobs[id].result) = PyNoItems
            /\ Loads(jobs[id].metadata) = PyEmpty
            /\ Batch(id).processed = 0
            /\ Batch(id).results = <<>>

\* A test batch with no modules: the job is stored completed with the error dict.
C22_Witness ==
    \E id \in Stored :
        /\ Batch(id) # NoFrame
        /\ Batch(id).kind = "test"
        /\ Batch(id).total = 0
        /\ jobs[id].status = "completed"
        /\ Loads(jobs[id].result) = PyNoItems

\* C23: in the validation and in the test processor, an item whose command exits
\* with code 0 or with code 5 is reported passed and counted successful, and an item
\* with any other exit code is reported failed.
C23_ExitCodes ==
    \A id \in Stored :
        (Batch(id) # NoFrame /\ Batch(id).kind \in {"validation", "test"}) =>
            LET f == Batch(id)
            IN  /\ \A k \in 1..Len(f.results) :
                    /\ f.items[k] \in {"rc0", "rc5"} => f.results[k].status = "passed"
                    /\ f.items[k] = "rc1" => f.results[k].status = "failed"
                /\ Len(f.results) = f.total =>
                    f.successful = Cardinality({k \in 1..f.total : f.items[k] \in {"rc0", "rc5"}})

\* The trackers in use: those of the processor calls in flight and a tracker alone.
Trackers == {frame[w] : w \in {v \in DOMAIN frame : "successful" \in DOMAIN frame[v]}}

\* C24: tracker counter invariant.  In every state of a ProgressTracker that a
\* snapshot can observe, after every increment call and after every correction a
\* processor applies, processed = successful + failed + skipped, and no counter is
\* negative.
C24_TrackerCounters ==
    \A t \in Trackers :
        /\ t.processed = t.successful + t.failed + t.skipped
        /\ t.successful >= 0 /\ t.failed >= 0 /\ t.skipped >= 0

\* A tracker after increments of all three kinds and one correction by a processor.
C24_Witness ==
    \E t \in Trackers :
        /\ t.successful >= 2
        /\ t.failed >= 1
        /\ t.skipped >= 1
        /\ "pending" \in DOMAIN t
        /\ t.pending = 1
        /\ t.processed = MaxItems + 1

\* C25: Job serialisation round-trips.  For every job j, Job.from_dict(j.to_dict())
\* has the same id, type, data, status, progress, result, error, created_at,
\* started_at, completed_at and metadata as j, and the dict holds the status as its
\* lowercase string value.
C25_RoundTrip ==
    /\ ret.op \in {"to_dict", "from_dict"} =>
        /\ ret.job.status = "QUEUED" => ret.dict["status"] = "queued"
        /\ ret.job.status = "RUNNING" => ret.dict["status"] = "running"
        /\ ret.job.status = "COMPLETED" => ret.dict["status"] = "completed"
        /\ ret.job.status = "FAILED" => ret.dict["status"] = "failed"
        /\ ret.job.status = "CANCELLED" => ret.dict["status"] = "cancelled"
    /\ ret.op = "from_dict" =>
        /\ DOMAIN ret.back = DOMAIN ret.job
        /\ \A k \in {"id", "type", "data", "status", "progress", "result", "error",
                     "created_at", "started_at", "completed_at", "metadata"} :
                ret.back[k] = ret.job[k]

\* A failed job with an error, an empty result and a progress snapshot went through
\* to_dict and from_dict.
C25_Witness ==
    /\ ret.op = "from_dict"
    /\ ret.job.status = "FAILED"
    /\ ret.job.error \in Errors
    /\ ret.job.result = PyEmpty
    /\ ret.job.metadata = PySnapshot
    /\ ret.job.completed_at = Stamp
    /\ ret.back.status = "FAILED"

\* The node the routing rules map a plan step's specialty to.
MappedAgent(sp) ==
    CASE sp = "devops" -> "DevOps"
      [] sp \in {"security", "docs"} -> "Architect"
      [] OTHER -> "CodingSquad"

\* C26: with a plan in the state, supervisor_node dispatches the steps in order
\* without invoking the LLM: while step_index is below the plan's length it routes to
\* the agent mapped from the current step's specialty and returns step_index + 1 and
\* that specialty as current_specialty; once step_index equals the plan's length it
\* returns next = FINISH with steps_done equal to the plan's length.
C26_PlanDispatch ==
    (ret.op = "supervisor_node" /\ Get(ret.state, "plan", <<>>) # <<>>) =>
        LET plan == ret.state.plan
            i == Get(ret.state, "step_index", 0)
        IN  /\ ~ret.llm
            /\ IF i < Len(plan)
               THEN /\ ret.out.next = MappedAgent(plan[i + 1])
                    /\ ret.out.step_index = i + 1
                    /\ ret.out.current_specialty = plan[i + 1]
               ELSE /\ ret.out.next = "FINISH"
                    /\ "steps_done" \in DOMAIN ret.out
                    /\ ret.out["steps_done"] = Len(plan)

\* C27: in every reachable state, across any interleaving of start(), stop() and job
\* completions (also a start() issued while a stop() still waits for its workers),
\* at most max_workers worker loops are alive and at most max_workers processor
\* calls are in flight.
C27_WorkerBound ==
    /\ Cardinality(Alive) <= max_workers
    /\ Cardinality({w \in DOMAIN pc : InProc(w)}) <= max_workers

\* The sub-operations of a processor call that are executing their work unit.
Executing(f) == {k \in DOMAIN f.items : f.items[k] = "run"}

\* C28: within one processor call, the number of sub-operations executing their
\* work unit at the same time never exceeds min(parallel, 10), for every
\* caller-supplied parallel (with parallel below 1 none executes at all), whatever
\* max_workers is.
C28_InnerBound ==
    \A w \in Tasks :
        (InItems(w) /\ Executing(frame[w]) # {}) =>
            Cardinality(Executing(frame[w])) <= Min(frame[w].given, 10)

\* A batch of eleven with parallel = 11: ten sub-operations execute and the
\* eleventh waits for the semaphore.
C28_Witness ==
    \E w \in Tasks :
        /\ InItems(w)
        /\ frame[w].given = 11
        /\ Cardinality(Executing(frame[w])) = 10
        /\ frame[w].items[11] = "wait"

\* A gather that can never return: a sub-operation of the chunk waits for the
\* semaphore, no permit is free, and no sub-operation holds one (only a
\* sub-operation leaving `async with semaphore` releases a permit).
Starved(f) ==
    /\ f.phase = "gather"
    /\ \E k \in Chunk(f) : f.items[k] = "wait"
    /\ ~Acquirable(f)
    /\ Executing(f) = {}

\* C29: for every parallel and chunk_size of the payload (zero and negative values
\* too), when every work unit terminates no sub-operation waits forever on the
\* concurrency semaphore, so the claimed job reaches a terminal stored status: no
\* processor call is ever in a gather that cannot return.
C29_NoStarvation == \A w \in Tasks : InItems(w) => ~Starved(frame[w])

\* The processor call of worker w has a sub-operation whose command never exits.
Hung(w) == InItems(w) /\ \E k \in DOMAIN frame[w].items : frame[w].items[k] = "hung"

\* C30: a validation or test command that never exits is ended by a timeout and
\* reported as a failed/error record, so the other items and the job as a whole
\* still finish: a processor call with such a command eventually returns.
C30_TimeoutEnds == \A w \in Tasks : Hung(w) ~> ~InItems(w)

\* C31: whenever a batch processor returns a summary, its results list holds exactly
\* one record per submitted item and results[i] is the record of items[i], for every
\* completion order and every chunk_size of the payload; each item's work unit was
\* invoked exactly once.
C31_ResultsByPosition ==
    \A id \in Stored :
        (Batch(id) # NoFrame /\ hist[id].outcome = PySummary) =>
            LET f == Batch(id)
            IN  /\ Len(f.results) = f.total
                /\ \A k \in 1..Len(f.results) : f.results[k] = Record(f.kind, k, f.items[k])
                /\ f.processed = f.total
                /\ \A k \in 1..f.total : f.items[k] \in Outcomes(f.kind)

\* The records of a finished call whose status is one of s.
WithStatus(f, s) == {k \in 1..Len(f.results) : f.results[k].status \in s}

\* C32: in the result a batch processor returns, summary.total is the number of
\* submitted items, summary.successful the number of records with a success status,
\* summary.failed the number of records with status failed or error, and
\* successful + failed + skipped = total.
C32_SummaryCounts ==
    \A id \in Stored :
        (Batch(id) # NoFrame /\ hist[id].outcome = PySummary) =>
            LET f == Batch(id)
                s == Summary(f)
            IN  /\ s.total = Len(f.items)
                /\ s.successful = Cardinality(WithStatus(f, {"completed", "success", "passed"}))
                /\ s.failed = Cardinality(WithStatus(f, {"failed", "error"}))
                /\ s.successful + s.failed + s.skipped = s.total

\* The operations of a call that cannot be dispatched: the type is not one of the
\* four, or its tool is missing from the tool map.
BadOps(f) == {k \in DOMAIN f.ops : f.ops[k] \notin DOMAIN ToolOf \/ ToolOf[f.ops[k]] \notin f.tools}

\* C33: in the mcp processor, an operation whose type is not read, write, list or
\* command, or whose tool is missing from the tool map, yields a failed record that
\* is counted in summary.failed; the other operations are still executed and the
\* processor returns its summary normally.
C33_UnknownOperation ==
    /\ \A w \in Tasks :
        (InItems(w) /\ frame[w].ops # <<>> /\ frame[w].phase = "return") =>
            /\ Len(frame[w].results) = Len(frame[w].ops)
            /\ \A k \in DOMAIN frame[w].ops : frame[w].items[k] \in Outcomes("mcp")
    /\ \A id \in Stored :
        (Batch(id) # NoFrame /\ Batch(id).ops # <<>>) =>
            LET f == Batch(id)
            IN  /\ hist[id].outcome = PySummary
                /\ jobs[id].status = "completed"
                /\ Len(f.results) = Len(f.ops)
                /\ \A k \in BadOps(f) : f.results[k].status = "failed" /\ f.results[k].error
                /\ \A k \in DOMAIN f.ops \ BadOps(f) :
                    f.results[k] = Record("mcp", k, f.items[k]) /\ f.items[k] \in Outcomes("mcp")
                /\ Summary(f).failed >= Cardinality(BadOps(f))
                /\ Summary(f).failed = Cardinality(WithStatus(f, {"failed"}))

\* A stored batch of two operations: the first, of an unknown type, failed; the read
\* after it was executed and succeeded.
C33_Witness ==
    \E id \in Stored :
        /\ Batch(id) # NoFrame
        /\ Batch(id).ops = <<"unknown", "read">>
        /\ Batch(id).tools = {"read_file", "run_command"}
        /\ jobs[id].status = "completed"
        /\ Batch(id).results[1].status = "failed"
        /\ Batch(id).results[2].status = "success"
        /\ Summary(Batch(id)).failed = 1
        /\ Summary(Batch(id)).successful = 1

\* C34: with one stored row whose payload cannot be decoded, only operations on that
\* row report a decode error: get_job of another id returns it, list_jobs returns
\* every other row it fetched, the claim goes on to other queued rows, and a claim
\* that failed to decode the row does not leave it in a changed status.
C34_CorruptRowOnly ==
    /\ ret.op = "get_job" => (ret.raised <=> ~RowDecodes(jobs[ret.id]))
    /\ ret.op = "list_jobs" => ret.returned = {id \in ret.fetched : RowDecodes(jobs[id])}
    /\ (ret.op = "claim" /\ ret.raised) =>
            /\ ret.id \notin NextJob(jobs)
            /\ jobs[ret.id].status = "queued"

\* C35: during a job's execution none of the tracker counters processed, successful,
\* failed, skipped ever decreases, in any of the four processors and for any
\* interleaving of the sub-operations.
C35_CountersMonotone ==
    [][\A w \in Tasks :
        (InItems(w) /\ InItems(w)') =>
            /\ frame'[w].processed >= frame[w].processed
            /\ frame'[w].successful >= frame[w].successful
            /\ frame'[w].failed >= frame[w].failed
            /\ frame'[w].skipped >= frame[w].skipped]_vars

\* C36: on every stored job, under every interleaving of claim, progress writes,
\* cancel_job and the worker's final write: a queued job has started_at and
\* completed_at unset; completed_at is set exactly when the status is completed,
\* failed or cancelled; a running, completed or failed job has started_at set.
C36_Timestamps ==
    \A id \in Stored :
        /\ jobs[id].status = "queued" =>
                jobs[id].started_at = NoTime /\ jobs[id].completed_at = NoTime
        /\ jobs[id].completed_at # NoTime <=> jobs[id].status \in Terminal
        /\ jobs[id].status \in {"running", "completed", "failed"} => jobs[id].started_at # NoTime

\* A job claimed, processed and written back by its worker, beside a job cancelled
\* while it was queued.
C36_Witness ==
    \E a, b \in Stored :
        /\ hist[a].invoked > 0
        /\ hist[a].outcome # "none"
        /\ jobs[a].status \in {"completed", "failed"}
        /\ jobs[a].completed_at # NoTime
        /\ jobs[b].status = "cancelled"
        /\ jobs[b].started_at = NoTime
        /\ jobs[b].completed_at # NoTime

\* C37: no operation sets a stored status back to queued and the claim selects only
\* queued jobs, so a processor is invoked at most once per job: a queued row is a row
\* never claimed and never cancelled, and a job left running by a failed write-back
\* or by stop(), or cancelled while running, is never claimed again, also after a
\* later start().
C37_InvokedOnce ==
    \A id \in Stored :
        /\ hist[id].invoked <= 1
        /\ hist[id].invoked <= hist[id].claims
        /\ jobs[id].status = "queued" =>
            /\ hist[id].claims = 0
            /\ ~hist[id].cancelledQueued

\* The queue is running with an idle worker, and a job whose write-back failed is
\* stored running, held by no worker, after its one processor call.
C37_Witness ==
    \E id \in Stored :
        /\ running
        /\ \E w \in Tasks : pc[w] = "idle"
        /\ \A w \in Tasks : job[w].id = id => ~InProc(w)
        /\ jobs[id].status = "running"
        /\ hist[id].lost
        /\ hist[id].invoked = 1

\* C38: the Celery single-item tasks return, for the same item and the same outcome
\* of its work unit, the record the in-process sub-operation returns; an item whose
\* work unit succeeds is reported with status passed or success.
C38_CeleryAgrees ==
    ret.op = "celery" =>
        /\ ret.record = Record(ret.call.kind, ret.call.k, ret.call.o)
        /\ Success(ret.call.kind, ret.call.o) => ret.record.status \in {"passed", "success"}

====
